---- MODULE Spec2Model ----
(***************************************************************************)
(* A state-machine model of loltoml's streaming TOML parser                *)
(* (include/loltoml/detail/parser.hpp).  The recursive-descent functions   *)
(* are unfolded into a machine with an explicit stack of frames: a frame   *)
(* is the rest of one C++ function from a program point on, with its       *)
(* locals.  One step performs at most one input.get() followed by at most  *)
(* one handler callback, in that order.                                    *)
(***************************************************************************)
EXTENDS Integers, Sequences, FiniteSets, TLC

VARIABLES
    source,     \* what the byte source may still produce when read lazily:
                \* its alphabet and the number of bytes left
    pending,    \* bytes of the source already fixed behind the lookahead
    la,         \* input_stream_t: the current unread byte, or the sentinel
    processed,  \* input_stream_t: number of get() calls so far
    consumed,   \* the real bytes consumed so far (history of the source)
    events,     \* the callbacks invoked on the handler, in order
    stack,      \* the call stack of parser_t, innermost frame last
    ret,        \* the value returned by the frame that returned last: the
                \* bytes of a key or string, or the one type tag of a value
    status,     \* "running", "done", "error", "consumer_failed", "foreign_exception"
    err         \* the exception that left parse(), if any

vars == <<source, pending, la, processed, consumed, events, stack, ret, status, err>>

-----------------------------------------------------------------------------
(* Bounds of the model.                                                    *)

\* Most bytes a byte source produces when it is read lazily.
MaxLen == 6

\* Longest body of one comment or quoted string the lazy source produces
\* before it must produce a byte that ends or aborts that body.
MaxText == 1

\* Longest bare token enumerated exhaustively by the token specification.
MaxTokLen == 3

-----------------------------------------------------------------------------
(* Characters.  A byte is a one-character string; a text is a sequence of  *)
(* bytes.                                                                  *)

EOFc == "EOF"

Lower == {"a","b","c","d","e","f","g","h","i","j","k","l","m",
          "n","o","p","q","r","s","t","u","v","w","x","y","z"}

Upper == {"A","B","C","D","E","F","G","H","I","J","K","L","M",
          "N","O","P","Q","R","S","T","U","V","W","X","Y","Z"}

DigitChars == <<"0","1","2","3","4","5","6","7","8","9">>

Digit == {DigitChars[i] : i \in 1..10}

DigitVal(c) == (CHOOSE i \in 1..10 : DigitChars[i] = c) - 1

\* The bytes below 0x20 that the model's sources can produce.
ControlBytes == {"\n", "\r", "\t", "\f"}

\* iscontrol: byte value < 32.  The end-of-input sentinel is a control byte.
iscontrol(ch) == ch \in ControlBytes \cup {EOFc}

is_word_character(ch) == ch \in Lower \cup Upper \cup Digit \cup {"+", "-", "_", "."}

is_key_character(ch) == ch \in Lower \cup Upper \cup Digit \cup {"-", "_"}

-----------------------------------------------------------------------------
(* The byte cursor (input_stream_t).                                       *)

peek == la

eof == la = EOFc

\* Bytes that end or abort the body of a comment or of a quoted string.
Terminators == {"\n", "\r", "\"", "'"}

\* What the source may show next once `textlen` bytes of a body were read.
NextBytes(textlen) ==
    IF source.left = 0 THEN {EOFc}
    ELSE IF source.capped /\ textlen >= MaxText
    THEN (source.alphabet \cap Terminators) \cup {EOFc}
    ELSE source.alphabet \cup {EOFc}

\* The source after it has shown byte b: at its end nothing is left.
Drawn(b) == IF b = EOFc THEN [source EXCEPT !.left = 0]
            ELSE [source EXCEPT !.left = @ - 1]

\* get(): consume the lookahead and advance the offset by one.
Get(textlen) ==
    /\ processed' = processed + 1
    /\ IF la = EOFc
       THEN /\ la' = EOFc
            /\ UNCHANGED <<pending, consumed, source>>
       ELSE /\ consumed' = Append(consumed, la)
            /\ IF pending # <<>>
               THEN /\ la' = Head(pending)
                    /\ pending' = Tail(pending)
                    /\ source' = source
               ELSE /\ pending' = pending
                    /\ la' \in NextBytes(textlen)
                    /\ source' = Drawn(la')

\* A step that reads nothing.
Keep == UNCHANGED <<source, pending, la, processed, consumed>>

\* A faulty last_char_offset(): the number of bytes read.
last_char_offset_processed(p) == p

\* last_char_offset() when processed() = p.
last_char_offset(p) == IF p = 0 THEN 0 ELSE p - 1

-----------------------------------------------------------------------------
(* Frames, exceptions and callbacks.                                       *)

NoErr == [kind |-> "none"]

None == <<>>

Frame(p) == [pc |-> p]

Top == stack[Len(stack)]

Rest == SubSeq(stack, 1, Len(stack) - 1)

At(p) == status = "running" /\ Len(stack) > 0 /\ Top.pc = p

\* Continue with stack stk and return register r, no callback.
Goto(stk, r) ==
    /\ stack' = stk
    /\ ret' = r
    /\ UNCHANGED <<events, status, err>>

\* A faulty throw: the error is recorded but the caller goes on parsing.
Throw_continue(msg, off) ==
    /\ err' = [kind |-> "parser_error_t", message |-> msg, offset |-> off]
    /\ stack' = Rest
    /\ UNCHANGED <<events, ret, status>>

\* throw parser_error_t(msg, off): nothing catches it, parse() is left.
Throw(msg, off) ==
    /\ status' = "error"
    /\ err' = [kind |-> "parser_error_t", message |-> msg, offset |-> off]
    /\ UNCHANGED <<events, stack, ret>>

\* An exception of the standard library leaves parse().
ThrowStd(what) ==
    /\ status' = "foreign_exception"
    /\ err' = [kind |-> what]
    /\ UNCHANGED <<events, stack, ret>>

\* A faulty callback site: a failure of the callback is caught and ignored.
Deliver_swallow(kind, val, st, stk, r) ==
    \E ok \in BOOLEAN :
        /\ events' = Append(events, [kind |-> kind, val |-> val, ok |-> ok])
        /\ status' = st
        /\ stack' = stk
        /\ ret' = r
        /\ err' = err

\* handler.kind(val): the callback either returns, and the parser goes on
\* with status st, stack stk and return register r, or raises a failure,
\* which nothing in the parser catches; the return register is not read
\* after a failure.
Deliver(kind, val, st, stk, r) ==
    \E ok \in BOOLEAN :
        /\ events' = Append(events, [kind |-> kind, val |-> val, ok |-> ok])
        /\ IF ok
           THEN /\ status' = st
                /\ stack' = stk
           ELSE /\ status' = "consumer_failed"
                /\ stack' = stack
        /\ ret' = r
        /\ err' = err

-----------------------------------------------------------------------------
(* Bare tokens: the patterns of parse_bool_or_number_or_symbol and the     *)
(* standard conversions it calls.                                          *)

AllDigits(s) == \A i \in 1..Len(s) : s[i] \in Digit

From(s, i) == SubSeq(s, i, Len(s))

\* std::regex("^\\d+$")
MatchInteger(s) == Len(s) > 0 /\ AllDigits(s)

\* (\d*.\d+)|(\d+.\d*)|\d+ : the dot is unescaped, it matches any one
\* character that is no line terminator.
MatchMantissa(m) ==
    \/ Len(m) > 0 /\ AllDigits(m)
    \/ \E i \in 1..Len(m) :
           /\ Len(m) >= 2
           /\ m[i] \notin {"\n", "\r"}
           /\ AllDigits(SubSeq(m, 1, i - 1))
           /\ AllDigits(From(m, i + 1))

\* ([eE][-+]?\d+)?
MatchExponent(x) ==
    \/ x = <<>>
    \/ /\ Len(x) >= 2
       /\ x[1] \in {"e", "E"}
       /\ LET d == IF x[2] \in {"+", "-"} THEN From(x, 3) ELSE From(x, 2)
          IN  Len(d) > 0 /\ AllDigits(d)

\* std::regex("^[-+]?((\\d*.\\d+)|(\\d+.\\d*)|\\d+)([eE][-+]?\\d+)?$")
MatchFloat(s) ==
    LET b == IF Len(s) > 0 /\ s[1] \in {"+", "-"} THEN Tail(s) ELSE s
    IN  \E k \in 0..Len(b) :
            MatchMantissa(SubSeq(b, 1, k)) /\ MatchExponent(From(b, k + 1))

\* std::regex("^[a-zA-Z_][a-zA-Z0-9_]*$")
MatchSymbol(s) ==
    /\ Len(s) > 0
    /\ s[1] \in Lower \cup Upper \cup {"_"}
    /\ \A i \in 2..Len(s) : s[i] \in Lower \cup Upper \cup Digit \cup {"_"}

RECURSIVE StripZeros(_)
\* A digit run without its leading zeros (one digit at least is kept).
StripZeros(s) == IF Len(s) > 1 /\ s[1] = "0" THEN StripZeros(Tail(s)) ELSE s

RECURSIVE LexLeq(_, _)
\* a <= b for digit runs of the same length.
LexLeq(a, b) ==
    IF a = <<>> THEN TRUE
    ELSE IF DigitVal(a[1]) # DigitVal(b[1]) THEN DigitVal(a[1]) < DigitVal(b[1])
    ELSE LexLeq(Tail(a), Tail(b))

\* a <= b for digit runs without leading zeros.
DigitsLeq(a, b) == Len(a) < Len(b) \/ (Len(a) = Len(b) /\ LexLeq(a, b))

\* LLONG_MAX = 2^63 - 1 = 9223372036854775807
LLongMax == <<"9","2","2","3","3","7","2","0","3","6","8","5","4","7","7","5","8","0","7">>

\* std::stoll on a digit run: the value, as its decimal digits without
\* leading zeros, or std::out_of_range beyond the 64-bit signed range.
stoll(s) ==
    LET c == StripZeros(s)
    IN  IF DigitsLeq(c, LLongMax)
        THEN [ok |-> TRUE, val |-> c]
        ELSE [ok |-> FALSE, what |-> "std::out_of_range"]

RECURSIVE RunLen(_, _)
\* Length of the longest prefix of s made of bytes of set S.
RunLen(s, S) == IF s # <<>> /\ s[1] \in S THEN 1 + RunLen(Tail(s), S) ELSE 0

RECURSIVE StripTrailingZeros(_)
StripTrailingZeros(s) ==
    IF Len(s) > 1 /\ s[Len(s)] = "0"
    THEN StripTrailingZeros(SubSeq(s, 1, Len(s) - 1))
    ELSE s

RECURSIVE DecVal(_)
\* The value of a short digit run.
DecVal(s) == IF s = <<>> THEN 0 ELSE 10 * DecVal(SubSeq(s, 1, Len(s) - 1)) + DigitVal(s[Len(s)])

\* The value of an exponent's digit run, saturated far beyond a double's range.
ExpVal(d) == LET c == StripZeros(d) IN IF Len(c) > 4 THEN 99999 ELSE DecVal(c)

HexDigit == Digit \cup {"a","b","c","d","e","f","A","B","C","D","E","F"}

\* std::stod, which is strtod on the whole token: it converts the longest
\* prefix that is a number and ignores the rest.  Tokens hold word
\* characters only, so of strtod's forms the decimal one, a hexadecimal
\* integer and "inf"/"nan" can occur.  No prefix: std::invalid_argument;
\* a magnitude outside a double's range: std::out_of_range.
stod(s) ==
    LET neg  == Len(s) > 0 /\ s[1] = "-"
        u    == IF Len(s) > 0 /\ s[1] \in {"+", "-"} THEN Tail(s) ELSE s
        ni   == RunLen(u, Digit)
        dot  == Len(u) > ni /\ u[ni + 1] = "."
        nf   == IF dot THEN RunLen(From(u, ni + 2), Digit) ELSE 0
        mant == SubSeq(u, 1, ni) \o (IF dot THEN SubSeq(u, ni + 2, ni + 1 + nf) ELSE <<>>)
        e    == From(u, ni + (IF dot THEN 1 ELSE 0) + nf + 1)
        esgn == Len(e) >= 2 /\ e[2] \in {"+", "-"}
        ed   == IF Len(e) >= 1 /\ e[1] \in {"e", "E"}
                THEN From(e, IF esgn THEN 3 ELSE 2) ELSE <<>>
        ne   == RunLen(ed, Digit)
        ex   == IF ne = 0 THEN 0
                ELSE IF esgn /\ e[2] = "-" THEN 0 - ExpVal(SubSeq(ed, 1, ne))
                ELSE ExpVal(SubSeq(ed, 1, ne))
        m1   == StripZeros(IF mant = <<>> THEN <<"0">> ELSE mant)
        m2   == StripTrailingZeros(m1)
        e10  == ex - nf + (Len(m1) - Len(m2))
        adj  == e10 + Len(m2) - 1
        hex  == Len(u) >= 2 /\ u[1] = "0" /\ u[2] \in {"x", "X"}
                  /\ RunLen(From(u, 3), HexDigit) > 0
        inf  == Len(u) >= 3 /\ u[1] \in {"i","I"} /\ u[2] \in {"n","N"} /\ u[3] \in {"f","F"}
        nan  == Len(u) >= 3 /\ u[1] \in {"n","N"} /\ u[2] \in {"a","A"} /\ u[3] \in {"n","N"}
    IN  IF hex
        THEN [ok |-> TRUE,
              val |-> [neg |-> neg, form |-> "hex",
                       digits |-> StripZeros(SubSeq(u, 3, 2 + RunLen(From(u, 3), HexDigit))),
                       exp |-> 0]]
        ELSE IF ni + nf > 0
        THEN IF m2 = <<"0">>
             THEN [ok |-> TRUE,
                   val |-> [neg |-> neg, form |-> "dec", digits |-> m2, exp |-> 0]]
             ELSE IF adj > 308 \/ adj < -307
             THEN [ok |-> FALSE, what |-> "std::out_of_range"]
             ELSE [ok |-> TRUE,
                   val |-> [neg |-> neg, form |-> "dec", digits |-> m2, exp |-> e10]]
        ELSE IF inf \/ nan
        THEN [ok |-> TRUE,
              val |-> [neg |-> neg, form |-> IF inf THEN "inf" ELSE "nan",
                       digits |-> <<>>, exp |-> 0]]
        ELSE [ok |-> FALSE, what |-> "std::invalid_argument"]

\* '\b', which has no notation of its own among the model's bytes.
BSc == "BS"

\* '\v', likewise.
VTc == "VT"

\* The bytes 0x20..0x7E (0x60 in hexadecimal notation).
PrintableChars ==
    <<" ", "!", "\"", "#", "$", "%", "&", "'", "(", ")", "*", "+", ",", "-", ".", "/",
       "0", "1", "2", "3", "4", "5", "6", "7", "8", "9", ":", ";", "<", "=", ">", "?",
       "@", "A", "B", "C", "D", "E", "F", "G", "H", "I", "J", "K", "L", "M", "N", "O",
       "P", "Q", "R", "S", "T", "U", "V", "W", "X", "Y", "Z", "[", "\\", "]", "^", "_",
       "x60", "a", "b", "c", "d", "e", "f", "g", "h", "i", "j", "k", "l", "m", "n", "o",
       "p", "q", "r", "s", "t", "u", "v", "w", "x", "y", "z", "{", "|", "}", "~">>

HexChars == <<"0","1","2","3","4","5","6","7","8","9","a","b","c","d","e","f">>

\* The byte of value n as the model writes bytes: itself where the model
\* has a notation for it, else "x" and its two hexadecimal digits.
Byte(n) ==
    IF n \in 32..126 THEN PrintableChars[n - 31]
    ELSE IF n = 8 THEN BSc
    ELSE IF n = 9 THEN "\t"
    ELSE IF n = 10 THEN "\n"
    ELSE IF n = 11 THEN VTc
    ELSE IF n = 12 THEN "\f"
    ELSE IF n = 13 THEN "\r"
    ELSE "x" \o HexChars[(n \div 16) + 1] \o HexChars[(n % 16) + 1]

\* The escapes of one character, lines 458-471 and 526-539.
SimpleEscapes == {"b", "t", "n", "f", "r", "\"", "\\"}

SimpleEscape(ch) ==
    IF ch = "b" THEN BSc
    ELSE IF ch = "t" THEN "\t"
    ELSE IF ch = "n" THEN "\n"
    ELSE IF ch = "f" THEN "\f"
    ELSE IF ch = "r" THEN "\r"
    ELSE ch

\* parse_hex_digit(), lines 387-393: the value of a hexadecimal digit.
HexVal(ch) ==
    IF ch \in Digit THEN DigitVal(ch)
    ELSE IF ch \in {"a", "A"} THEN 10
    ELSE IF ch \in {"b", "B"} THEN 11
    ELSE IF ch \in {"c", "C"} THEN 12
    ELSE IF ch \in {"d", "D"} THEN 13
    ELSE IF ch \in {"e", "E"} THEN 14
    ELSE 15

RECURSIVE HexValue(_)
\* (codepoint << 4) + digit over a run of at most four digit values.
HexValue(ds) ==
    IF ds = <<>> THEN 0
    ELSE 16 * HexValue(SubSeq(ds, 1, Len(ds) - 1)) + ds[Len(ds)]

\* A faulty process_codepoint(): every code point is written as the one
\* byte of its low seven bits.
process_codepoint_low_bits(ds) ==
    [ok |-> TRUE, bytes |-> <<Byte(HexValue(SubSeq(ds, Len(ds) - 1, Len(ds))) % 128)>>]

\* process_codepoint(), lines 420-444, on the code point whose four or
\* eight hexadecimal digit values are ds: the UTF-8 bytes appended to the
\* output, or the error thrown.  The code point is held as its upper and
\* lower 16 bits.
process_codepoint(ds) ==
    LET hi == HexValue(SubSeq(ds, 1, Len(ds) - 4))
        lo == HexValue(SubSeq(ds, Len(ds) - 3, Len(ds)))
        cp == hi * 65536 + lo
    IN  IF hi = 0 /\ lo >= 55296 /\ lo <= 57343
        THEN [ok |-> FALSE, message |-> "Surrogate pairs are not allowed"]
        ELSE IF hi > 16
        THEN [ok |-> FALSE, message |-> "Codepoint must be less or equal than 0x10FFFF"]
        ELSE IF cp <= 127
        THEN [ok |-> TRUE, bytes |-> <<Byte(cp)>>]
        ELSE IF cp <= 2047
        THEN [ok |-> TRUE, bytes |-> <<Byte(192 + (cp \div 64)), Byte(128 + (cp % 64))>>]
        ELSE IF cp <= 65535
        THEN [ok |-> TRUE,
              bytes |-> <<Byte(224 + (cp \div 4096)),
                          Byte(128 + ((cp \div 64) % 64)),
                          Byte(128 + (cp % 64))>>]
        ELSE [ok |-> TRUE,
              bytes |-> <<Byte(240 + (cp \div 262144)),
                          Byte(128 + ((cp \div 4096) % 64)),
                          Byte(128 + ((cp \div 64) % 64)),
                          Byte(128 + (cp % 64))>>]

\* A faulty isspace: blanks only.
isspace_blank(ch) == ch \in {" ", "\t"}

\* std::isspace in the "C" locale.  The end-of-input sentinel is no space.
isspace(ch) == ch \in {" ", "\t", "\n", VTc, "\f", "\r"}


-----------------------------------------------------------------------------
(* The grammar driver.  Each action is one program point of parser_t.      *)

T_true  == <<"t","r","u","e">>

T_false == <<"f","a","l","s","e">>

\* parse_expression(): skip_spaces() and then the dispatch on the lookahead.
ExpressionFrames == <<Frame("expression"), Frame("skip_spaces")>>

\* A faulty pair: line ends are skipped between `=` and the value.
PairFrames_blank_lines ==
    <<Frame("value"), Frame("skip_lines"), Frame("expect_eq"), Frame("skip_spaces")>>

\* The frames of a key-value pair once its key was delivered:
\* skip_spaces(); parse_chars("="); skip_spaces(); parse_value();
PairFrames == <<Frame("value"), Frame("skip_spaces"), Frame("expect_eq"), Frame("skip_spaces")>>

\* parse(), line 91: handler.start_document(); parse_expression();
parse_begin ==
    /\ At("parse")
    /\ Keep
    /\ Deliver("start_document", None, "running",
               Rest \o <<Frame("parse_loop")>> \o ExpressionFrames, ret)

\* A faulty parse(): it returns at the end of input without finish_document.
parse_loop_no_callback ==
    /\ At("parse_loop")
    /\ Keep
    /\ IF eof
       THEN status' = "done" /\ stack' = Rest /\ UNCHANGED <<events, ret, err>>
       ELSE Goto(stack \o ExpressionFrames \o <<Frame("new_line")>>, ret)

\* parse(), lines 95-100: the loop over the lines and finish_document().
parse_loop ==
    /\ At("parse_loop")
    /\ Keep
    /\ IF eof
       THEN Deliver("finish_document", None, "done", Rest, ret)
       ELSE Goto(stack \o ExpressionFrames \o <<Frame("new_line")>>, ret)

\* A faulty skip_spaces(): the blank is looked at and not consumed.
skip_spaces_peek_only ==
    /\ At("skip_spaces")
    /\ Keep
    /\ IF ~eof /\ peek \in {" ", "\t"}
       THEN Goto(stack, ret)
       ELSE Goto(Rest, ret)

\* skip_spaces(): one turn of the loop.
skip_spaces ==
    /\ At("skip_spaces")
    /\ IF ~eof /\ peek \in {" ", "\t"}
       THEN Get(0) /\ Goto(stack, ret)
       ELSE Keep /\ Goto(Rest, ret)

\* parse_comment(), lines 148-151: the '#'.
parse_comment ==
    /\ At("comment")
    /\ peek = "#"
    /\ Get(0)
    /\ Goto(Rest \o <<[pc |-> "comment_body", comment |-> <<>>]>>, ret)

\* parse_comment(), lines 152-156: one turn of the loop, or the callback.
parse_comment_body ==
    /\ At("comment_body")
    /\ IF peek = "\t" \/ ~iscontrol(peek)
       THEN /\ Get(Len(Top.comment) + 1)
            /\ Goto(Rest \o <<[Top EXCEPT !.comment = Append(@, peek)]>>, ret)
       ELSE /\ Keep
            /\ Deliver("comment", Top.comment, "running", Rest, ret)

\* A faulty parse_new_line(): a byte that starts no line terminator is left
\* unread and parsing goes on.
parse_new_line_optional ==
    /\ At("new_line")
    /\ IF peek \in {"\r", "\n"}
       THEN /\ Get(0)
            /\ IF peek = "\r"
               THEN Goto(Rest \o <<Frame("new_line_lf")>>, ret)
               ELSE Goto(Rest, ret)
       ELSE Keep /\ Goto(Rest, ret)

\* parse_new_line(), lines 160-168, up to the byte after a '\r'.
parse_new_line ==
    /\ At("new_line")
    /\ Get(0)
    /\ IF peek = "\r"
       THEN Goto(Rest \o <<Frame("new_line_lf")>>, ret)
       ELSE IF peek # "\n"
       THEN Throw("Expected new-line", last_char_offset(processed + 1))
       ELSE Goto(Rest, ret)

\* parse_new_line(), lines 163-168: the byte after a '\r'.
parse_new_line_lf ==
    /\ At("new_line_lf")
    /\ Get(0)
    /\ IF peek # "\n"
       THEN Throw("Expected new-line", last_char_offset(processed + 1))
       ELSE Goto(Rest, ret)

\* skip_spaces_and_empty_lines(): the loop test and skip_spaces().
skip_spaces_and_empty_lines ==
    /\ At("skip_lines")
    /\ Keep
    /\ IF eof
       THEN Goto(Rest, ret)
       ELSE Goto(Rest \o <<Frame("skip_lines_dispatch"), Frame("skip_spaces")>>, ret)

\* A faulty skip_spaces_and_empty_lines(): a line that is not blank is parsed
\* as an expression.
skip_lines_dispatch_expression ==
    /\ At("skip_lines_dispatch")
    /\ Keep
    /\ IF peek = "#"
       THEN Goto(Rest \o <<Frame("skip_lines"), Frame("new_line"), Frame("comment")>>, ret)
       ELSE IF peek = "\r" \/ peek = "\n"
       THEN Goto(Rest \o <<Frame("skip_lines"), Frame("new_line")>>, ret)
       ELSE IF peek = "["
       THEN Goto(Rest \o <<Frame("skip_lines"), Frame("new_line"), Frame("table_header")>>, ret)
       ELSE Goto(Rest, ret)

\* skip_spaces_and_empty_lines(), lines 175-182.
skip_lines_dispatch ==
    /\ At("skip_lines_dispatch")
    /\ Keep
    /\ IF peek = "#"
       THEN Goto(Rest \o <<Frame("skip_lines"), Frame("new_line"), Frame("comment")>>, ret)
       ELSE IF peek = "\r" \/ peek = "\n"
       THEN Goto(Rest \o <<Frame("skip_lines"), Frame("new_line")>>, ret)
       ELSE Goto(Rest, ret)

\* parse_expression(), lines 189-207, after its skip_spaces().
parse_expression ==
    /\ At("expression")
    /\ Keep
    /\ IF eof THEN Goto(Rest, ret)
       ELSE IF peek = "\r" \/ peek = "\n" THEN Goto(Rest, ret)
       ELSE IF peek = "#" THEN Goto(Rest \o <<Frame("comment")>>, ret)
       ELSE IF peek = "["
       THEN Goto(Rest \o <<Frame("trailing_comment"), Frame("skip_spaces"),
                           Frame("table_header")>>, ret)
       ELSE Goto(Rest \o <<Frame("trailing_comment"), Frame("skip_spaces"),
                           Frame("kv_pair"), Frame("key")>>, ret)

\* parse_expression(), lines 198-200 and 204-206: the optional comment.
trailing_comment ==
    /\ At("trailing_comment")
    /\ Keep
    /\ IF ~eof /\ peek = "#"
       THEN Goto(Rest \o <<Frame("comment")>>, ret)
       ELSE Goto(Rest, ret)

\* A faulty parse_kv_pair(): the '=' is read before the key is delivered.
parse_kv_pair_key_after_eq ==
    /\ At("kv_pair")
    /\ Get(0)
    /\ IF peek = "="
       THEN Deliver("key", ret, "running",
                    Rest \o <<Frame("value"), Frame("skip_spaces")>>, ret)
       ELSE Throw("Expected one of the following symbols: '='",
                  last_char_offset(processed + 1))

\* parse_kv_pair(), line 250: handler.key(parse_key()), the key in ret.
parse_kv_pair ==
    /\ At("kv_pair")
    /\ Keep
    /\ Deliver("key", ret, "running", Rest \o PairFrames, ret)

\* parse_chars("="), lines 125-138.
parse_chars_eq ==
    /\ At("expect_eq")
    /\ Get(0)
    /\ IF peek = "="
       THEN Goto(Rest, ret)
       ELSE Throw("Expected one of the following symbols: '='",
                  last_char_offset(processed + 1))

\* parse_key(), lines 259-273: the first byte of the key.
parse_key ==
    /\ At("key")
    /\ Get(0)
    /\ IF peek = "\""
       THEN Goto(Rest \o <<Frame("quoted_key"), [pc |-> "basic_string", result |-> <<>>]>>, ret)
       ELSE IF ~is_key_character(peek)
       THEN Throw("Expected a non-empty key", last_char_offset(processed + 1))
       ELSE Goto(Rest \o <<[pc |-> "key_rest", key |-> <<peek>>]>>, ret)

\* parse_key(), lines 275-280: the rest of a bare key.
parse_key_rest ==
    /\ At("key_rest")
    /\ IF is_key_character(peek)
       THEN Get(0) /\ Goto(Rest \o <<[Top EXCEPT !.key = Append(@, peek)]>>, ret)
       ELSE Keep /\ Goto(Rest, Top.key)

\* parse_key(), lines 261-265 and 280: a quoted key is not empty.
parse_key_quoted ==
    /\ At("quoted_key")
    /\ Keep
    /\ IF ret = <<>>
       THEN Throw("Expected a non-empty key", last_char_offset(processed))
       ELSE Goto(Rest, ret)

\* parse_table_header(), lines 211-212: the '['.
parse_table_header ==
    /\ At("table_header")
    /\ peek = "["
    /\ Get(0)
    /\ Goto(Rest \o <<Frame("table_header_second")>>, ret)

\* parse_table_header(), lines 214-225: a second '[' marks an array item;
\* then the loop is entered: skip_spaces(); parse_key().
parse_table_header_second ==
    /\ At("table_header_second")
    /\ IF peek = "[" THEN Get(0) ELSE Keep
    /\ Goto(Rest \o <<[pc |-> "table_header_key", array_item |-> (peek = "["), path |-> <<>>],
                      Frame("key"), Frame("skip_spaces")>>, ret)

\* A faulty path: the segment is put in front of the earlier ones.
emplace_front(path, key) == <<key>> \o path

\* path.emplace_back(key), line 225.
emplace_back(path, key) == Append(path, key)

\* parse_table_header(), lines 225-227: path.emplace_back(parse_key()).
parse_table_header_key ==
    /\ At("table_header_key")
    /\ Keep
    /\ Goto(Rest \o <<[pc |-> "table_header_close", array_item |-> Top.array_item,
                       path |-> emplace_back(Top.path, ret)],
                      Frame("skip_spaces")>>, ret)

\* parse_table_header(), lines 229-246: ']' ends the path, '.' extends it.
parse_table_header_close ==
    /\ At("table_header_close")
    /\ Get(0)
    /\ IF peek = "]"
       THEN IF Top.array_item
            THEN Goto(Rest \o <<[Top EXCEPT !.pc = "table_header_close2"]>>, ret)
            ELSE Deliver("table", Top.path, "running", Rest, ret)
       ELSE IF peek = "."
       THEN Goto(Rest \o <<[Top EXCEPT !.pc = "table_header_key"],
                           Frame("key"), Frame("skip_spaces")>>, ret)
       ELSE Throw("Expected one of the following symbols: '.'",
                  last_char_offset(processed + 1))

\* parse_table_header(), lines 232-243: the second ']' of an array item.
parse_table_header_close2 ==
    /\ At("table_header_close2")
    /\ Get(0)
    /\ IF peek = "]"
       THEN Deliver("array_table", Top.path, "running", Rest, ret)
       ELSE Throw("Expected one of the following symbols: ']'",
                  last_char_offset(processed + 1))

\* A faulty parse_value(): a literal string has a type tag of its own.
parse_value_literal_tag ==
    /\ At("value")
    /\ Keep
    /\ IF peek = "{"
       THEN Goto(Rest \o <<[pc |-> "value_type", type |-> "table"],
                           Frame("inline_table")>>, ret)
       ELSE IF peek = "["
       THEN Goto(Rest \o <<[pc |-> "value_type", type |-> "array"],
                           Frame("array")>>, ret)
       ELSE IF peek = "\""
       THEN Goto(Rest \o <<[pc |-> "value_type", type |-> "string"],
                           Frame("string")>>, ret)
       ELSE IF peek = "'"
       THEN Goto(Rest \o <<[pc |-> "value_type", type |-> "literal_string"],
                           Frame("literal_string")>>, ret)
       ELSE Goto(Rest \o <<Frame("token")>>, ret)

\* parse_value(), lines 284-304: the dispatch on the lookahead.  The frame
\* "value_type" returns the type tag once the production has returned.
parse_value ==
    /\ At("value")
    /\ Keep
    /\ IF peek = "{"
       THEN Goto(Rest \o <<[pc |-> "value_type", type |-> "table"],
                           Frame("inline_table")>>, ret)
       ELSE IF peek = "["
       THEN Goto(Rest \o <<[pc |-> "value_type", type |-> "array"],
                           Frame("array")>>, ret)
       ELSE IF peek = "\""
       THEN Goto(Rest \o <<[pc |-> "value_type", type |-> "string"],
                           Frame("string")>>, ret)
       ELSE IF peek = "'"
       THEN Goto(Rest \o <<[pc |-> "value_type", type |-> "string"],
                           Frame("literal_string")>>, ret)
       ELSE Goto(Rest \o <<Frame("token")>>, ret)

\* parse_value(), lines 287, 291, 295, 299: return toml_type_t::...
parse_value_return ==
    /\ At("value_type")
    /\ Keep
    /\ Goto(Rest, <<Top.type>>)

\* parse_array(), lines 308-314: the '[' and start_array().
parse_array ==
    /\ At("array")
    /\ peek = "["
    /\ Get(0)
    /\ Deliver("start_array", None, "running",
               Rest \o <<[pc |-> "array_loop", size |-> 0, array_type |-> "unset"],
                         Frame("skip_lines")>>, ret)

\* parse_array(), lines 317-324: ']' closes the array, else an element.
parse_array_loop ==
    /\ At("array_loop")
    /\ IF peek = "]"
       THEN /\ Get(0)
            /\ Deliver("finish_array", Top.size, "running", Rest, ret)
       ELSE /\ Keep
            /\ Goto(Rest \o <<[pc |-> "array_item", size |-> Top.size,
                               array_type |-> Top.array_type,
                               item_offset |-> processed],
                              Frame("value")>>, ret)

\* A faulty count: the element is not counted.
size_unchanged(size) == size

\* ++size, lines 330 and 370.
increment_size(size) == size + 1

\* A faulty offset: that of the last byte read, as elsewhere in the parser.
item_offset_last_char(frame) == last_char_offset(processed)

\* The offset parse_array() reports for an element of another type.
item_offset(frame) == frame.item_offset

\* parse_array(), lines 324-334: the type check of the element just parsed.
parse_array_item ==
    /\ At("array_item")
    /\ Keep
    /\ IF Top.size > 0 /\ ret # <<Top.array_type>>
       THEN Throw("All array elements must be of the same type", item_offset(Top))
       ELSE Goto(Rest \o <<[pc |-> "array_separator", size |-> increment_size(Top.size),
                            array_type |-> ret[1]],
                           Frame("skip_lines")>>, ret)

\* A faulty parse_array(): the ',' behind an element is counted too.
parse_array_separator_counts_comma ==
    /\ At("array_separator")
    /\ Get(0)
    /\ IF peek = "]"
       THEN Deliver("finish_array", Top.size, "running", Rest, ret)
       ELSE IF peek = ","
       THEN Goto(Rest \o <<[Top EXCEPT !.pc = "array_loop",
                                       !.size = increment_size(Top.size)],
                           Frame("skip_lines")>>, ret)
       ELSE Throw("Expected ',' or ']' after an array element",
                  last_char_offset(processed + 1))

\* parse_array(), lines 336-344: ',' or ']' after an element.
parse_array_separator ==
    /\ At("array_separator")
    /\ Get(0)
    /\ IF peek = "]"
       THEN Deliver("finish_array", Top.size, "running", Rest, ret)
       ELSE IF peek = ","
       THEN Goto(Rest \o <<[Top EXCEPT !.pc = "array_loop"], Frame("skip_lines")>>, ret)
       ELSE Throw("Expected ',' or ']' after an array element",
                  last_char_offset(processed + 1))

\* A faulty parse_inline_table(): line ends and comments are skipped
\* behind the '{'.
parse_inline_table_skip_lines ==
    /\ At("inline_table")
    /\ peek = "{"
    /\ Get(0)
    /\ Deliver("start_inline_table", None, "running",
               Rest \o <<Frame("inline_table_first"), Frame("skip_lines")>>, ret)

\* parse_inline_table(), lines 349-354: the '{' and start_inline_table().
parse_inline_table ==
    /\ At("inline_table")
    /\ peek = "{"
    /\ Get(0)
    /\ Deliver("start_inline_table", None, "running",
               Rest \o <<Frame("inline_table_first"), Frame("skip_spaces")>>, ret)

\* parse_inline_table(), lines 356-363: '}' at once, else the first key.
parse_inline_table_first ==
    /\ At("inline_table_first")
    /\ IF peek = "}"
       THEN /\ Get(0)
            /\ Deliver("finish_inline_table", 0, "running", Rest, ret)
       ELSE /\ Keep
            /\ Goto(Rest \o <<[pc |-> "inline_table_key", size |-> 0], Frame("key")>>, ret)

\* parse_inline_table(), lines 363-368: handler.key(parse_key()) and the
\* rest of the pair.
parse_inline_table_key ==
    /\ At("inline_table_key")
    /\ Keep
    /\ Deliver("key", ret, "running",
               Rest \o <<[pc |-> "inline_table_separator", size |-> Top.size],
                         Frame("skip_spaces")>> \o PairFrames, ret)

\* parse_inline_table(), lines 370-380: ',' or '}' after a pair.
parse_inline_table_separator ==
    /\ At("inline_table_separator")
    /\ Get(0)
    /\ IF peek = "}"
       THEN Deliver("finish_inline_table", increment_size(Top.size), "running", Rest, ret)
       ELSE IF peek = ","
       THEN Goto(Rest \o <<[pc |-> "inline_table_key", size |-> increment_size(Top.size)],
                           Frame("key"), Frame("skip_spaces")>>, ret)
       ELSE Throw("Expected ',' or '}' after an inline table element",
                  last_char_offset(processed + 1))

\* parse_string(), lines 556-557: the opening '"'.
parse_string ==
    /\ At("string")
    /\ peek = "\""
    /\ Get(0)
    /\ Goto(Rest \o <<Frame("string_second")>>, ret)

\* parse_string(), lines 559-570: a second '"' or a basic string.
parse_string_second ==
    /\ At("string_second")
    /\ IF peek = "\""
       THEN Get(0) /\ Goto(Rest \o <<Frame("string_third")>>, ret)
       ELSE Keep /\ Goto(Rest \o <<Frame("string_deliver"),
                                   [pc |-> "basic_string", result |-> <<>>]>>, ret)

\* parse_string(), lines 562-567: a third '"' or the empty string.
parse_string_third ==
    /\ At("string_third")
    /\ IF peek = "\""
       THEN Get(0) /\ Goto(Rest \o <<Frame("string_deliver"), Frame("multiline_open")>>, ret)
       ELSE Keep /\ Deliver("string", <<>>, "running", Rest, ret)

\* parse_string(), lines 564 and 569: handler.string(...) of the scanned text.
parse_string_deliver ==
    /\ At("string_deliver")
    /\ Keep
    /\ Deliver("string", ret, "running", Rest, ret)

\* parse_basic_string(), lines 449-484: one turn of the loop.
parse_basic_string ==
    /\ At("basic_string")
    /\ Get(Len(Top.result) + 1)
    /\ IF iscontrol(peek)
       THEN Throw("Control characters must be escaped", last_char_offset(processed + 1))
       ELSE IF peek = "\""
       THEN Goto(Rest, Top.result)
       ELSE IF peek = "\\"
       THEN Goto(Rest \o <<[pc |-> "basic_escape", result |-> Top.result,
                            escape_sequence_offset |-> last_char_offset(processed + 1)]>>, ret)
       ELSE Goto(Rest \o <<[Top EXCEPT !.result = Append(@, peek)]>>, ret)

\* A faulty parse_multiline_string(): the first new-line is kept.
parse_multiline_string_keep_first ==
    /\ At("multiline_open")
    /\ Keep
    /\ Goto(Rest \o <<[pc |-> "multiline", result |-> <<>>]>>, ret)

\* parse_multiline_string(), lines 488-493: the new-line after the quotes.
parse_multiline_string ==
    /\ At("multiline_open")
    /\ Keep
    /\ IF peek = "\r" \/ peek = "\n"
       THEN Goto(Rest \o <<[pc |-> "multiline", result |-> <<>>], Frame("new_line")>>, ret)
       ELSE Goto(Rest \o <<[pc |-> "multiline", result |-> <<>>]>>, ret)

\* parse_multiline_string(), lines 495-550: one turn of the loop.
parse_multiline_body ==
    /\ At("multiline")
    /\ IF peek = "\r" \/ peek = "\n"
       THEN /\ Keep
            /\ Goto(Rest \o <<[Top EXCEPT !.result = Append(@, "\n")], Frame("new_line")>>, ret)
       ELSE /\ Get(Len(Top.result) + 1)
            /\ IF iscontrol(peek)
               THEN Throw("Control characters must be escaped",
                          last_char_offset(processed + 1))
               ELSE IF peek = "\""
               THEN Goto(Rest \o <<[Top EXCEPT !.pc = "multiline_quote"]>>, ret)
               ELSE IF peek = "\\"
               THEN Goto(Rest \o <<[Top EXCEPT !.pc = "multiline_backslash"]>>, ret)
               ELSE Goto(Rest \o <<[Top EXCEPT !.result = Append(@, peek)]>>, ret)

\* A faulty parse_multiline_string(): a single '"' is not copied.
parse_multiline_quote_dropped ==
    /\ At("multiline_quote")
    /\ IF peek = "\""
       THEN Get(Len(Top.result) + 1)
            /\ Goto(Rest \o <<[Top EXCEPT !.pc = "multiline_quote2"]>>, ret)
       ELSE Keep
            /\ Goto(Rest \o <<[pc |-> "multiline", result |-> Top.result]>>, ret)

\* parse_multiline_string(), lines 506-514: after one '"'.
parse_multiline_quote ==
    /\ At("multiline_quote")
    /\ IF peek = "\""
       THEN Get(Len(Top.result) + 1)
            /\ Goto(Rest \o <<[Top EXCEPT !.pc = "multiline_quote2"]>>, ret)
       ELSE Keep
            /\ Goto(Rest \o <<[pc |-> "multiline", result |-> Append(Top.result, "\"")]>>, ret)

\* parse_multiline_string(), lines 508-514: after two '"'.
parse_multiline_quote2 ==
    /\ At("multiline_quote2")
    /\ IF peek = "\""
       THEN Get(0) /\ Goto(Rest, Top.result)
       ELSE Keep
            /\ Goto(Rest \o <<[pc |-> "multiline",
                               result |-> Top.result \o <<"\"", "\"">>]>>, ret)

\* A faulty offset: that of the byte read last where the error is thrown.
escape_sequence_offset_last_char(frame) ==
    IF Top.pc = "codepoint" THEN last_char_offset(processed) ELSE processed

\* escape_sequence_offset, lines 456 and 524: the offset of the backslash.
escape_sequence_offset(frame) == frame.escape_sequence_offset

\* The switch on the character behind a backslash, lines 457-477 and
\* 525-545, for a string whose loop is at program point `back`.
Escape(ch, back, result, offset) ==
    IF ch \in SimpleEscapes
    THEN Goto(Rest \o <<[pc |-> back, result |-> Append(result, SimpleEscape(ch))]>>, ret)
    ELSE IF ch \in {"u", "U"}
    THEN Goto(Rest \o <<[pc |-> "codepoint", back |-> back, result |-> result,
                         escape_sequence_offset |-> offset],
                        [pc |-> "hex_digit", left |-> IF ch = "u" THEN 4 ELSE 8,
                         digits |-> <<>>]>>, ret)
    ELSE Throw("Invalid escape-sequence",
               escape_sequence_offset([escape_sequence_offset |-> offset]))

\* parse_basic_string(), lines 457-477: the character behind the backslash.
parse_basic_escape ==
    /\ At("basic_escape")
    /\ Get(Len(Top.result) + 1)
    /\ Escape(peek, "basic_string", Top.result, Top.escape_sequence_offset)

\* parse_hex_digit(), lines 385-395, within parse_4_digit_codepoint() and
\* parse_8_digit_codepoint(), lines 398-418: one digit of the code point.
parse_hex_digit ==
    /\ At("hex_digit")
    /\ Get(0)
    /\ IF peek \notin HexDigit
       THEN Throw("Expected hex-digit", last_char_offset(processed + 1))
       ELSE IF Top.left = 1
       THEN Goto(Rest, Append(Top.digits, HexVal(peek)))
       ELSE Goto(Rest \o <<[Top EXCEPT !.left = @ - 1,
                                       !.digits = Append(@, HexVal(peek))]>>, ret)

\* process_codepoint(), lines 420-444, called at lines 473, 475, 541, 543
\* with the code point just read.
parse_codepoint ==
    /\ At("codepoint")
    /\ Keep
    /\ LET r == process_codepoint(ret)
       IN  IF r.ok
           THEN Goto(Rest \o <<[pc |-> Top.back, result |-> Top.result \o r.bytes]>>, ret)
           ELSE Throw(r.message, escape_sequence_offset(Top))

\* parse_multiline_string(), lines 515-545: behind a backslash, a line end
\* splices the line, another character is an escape.
parse_multiline_backslash ==
    /\ At("multiline_backslash")
    /\ IF peek = "\r" \/ peek = "\n"
       THEN /\ Keep
            /\ Goto(Rest \o <<[pc |-> "multiline", result |-> Top.result],
                              Frame("multiline_splice"), Frame("new_line")>>, ret)
       ELSE /\ Get(Len(Top.result) + 1)
            /\ Escape(peek, "multiline", Top.result, last_char_offset(processed))

\* parse_multiline_string(), lines 517-519: the white space behind a
\* spliced line end.
parse_multiline_splice ==
    /\ At("multiline_splice")
    /\ IF isspace(peek)
       THEN Get(0) /\ Goto(stack, ret)
       ELSE Keep /\ Goto(Rest, ret)

\* parse_literal_string(), lines 574-575: the opening quote.
parse_literal_string ==
    /\ At("literal_string")
    /\ peek = "'"
    /\ Get(0)
    /\ Goto(Rest \o <<Frame("literal_second")>>, ret)

\* parse_literal_string(), lines 577-578 and 618-619: a second quote, or
\* the body of a literal string of one line.
parse_literal_second ==
    /\ At("literal_second")
    /\ IF peek = "'"
       THEN Get(0) /\ Goto(Rest \o <<Frame("literal_third")>>, ret)
       ELSE Keep /\ Goto(Rest \o <<[pc |-> "literal_body", string |-> <<>>]>>, ret)

\* parse_literal_string(), lines 580-581 and 615-617: a third quote opens a
\* multiline literal string, else the string is empty.
parse_literal_third ==
    /\ At("literal_third")
    /\ IF peek = "'"
       THEN Get(0) /\ Goto(Rest \o <<Frame("literal_open")>>, ret)
       ELSE Keep /\ Deliver("string", <<>>, "running", Rest, ret)

\* parse_literal_string(), lines 583-588: the new-line after the quotes.
parse_literal_open ==
    /\ At("literal_open")
    /\ Keep
    /\ IF peek = "\r" \/ peek = "\n"
       THEN Goto(Rest \o <<[pc |-> "literal_multiline", string |-> <<>>],
                           Frame("new_line")>>, ret)
       ELSE Goto(Rest \o <<[pc |-> "literal_multiline", string |-> <<>>]>>, ret)

\* parse_literal_string(), lines 589-613: one turn of the loop.
parse_literal_multiline ==
    /\ At("literal_multiline")
    /\ IF peek = "\r" \/ peek = "\n"
       THEN /\ Keep
            /\ Goto(Rest \o <<[Top EXCEPT !.string = Append(@, "\n")],
                              Frame("new_line")>>, ret)
       ELSE /\ Get(Len(Top.string) + 1)
            /\ IF peek = "'"
               THEN Goto(Rest \o <<[Top EXCEPT !.pc = "literal_quote"]>>, ret)
               ELSE IF iscontrol(peek) /\ peek # "\t"
               THEN Throw("Control characters are not allowed",
                          last_char_offset(processed + 1))
               ELSE Goto(Rest \o <<[Top EXCEPT !.string = Append(@, peek)]>>, ret)

\* parse_literal_string(), lines 598-607: after one quote.
parse_literal_quote ==
    /\ At("literal_quote")
    /\ IF peek = "'"
       THEN Get(Len(Top.string) + 1)
            /\ Goto(Rest \o <<[Top EXCEPT !.pc = "literal_quote2"]>>, ret)
       ELSE Keep
            /\ Goto(Rest \o <<[pc |-> "literal_multiline",
                               string |-> Append(Top.string, "'")]>>, ret)

\* parse_literal_string(), lines 600-607: after two quotes.
parse_literal_quote2 ==
    /\ At("literal_quote2")
    /\ IF peek = "'"
       THEN Get(0) /\ Deliver("string", Top.string, "running", Rest, ret)
       ELSE Keep
            /\ Goto(Rest \o <<[pc |-> "literal_multiline",
                               string |-> Top.string \o <<"'", "'">>]>>, ret)

\* parse_literal_string(), lines 618-631: a literal string of one line.
parse_literal_body ==
    /\ At("literal_body")
    /\ Get(Len(Top.string) + 1)
    /\ IF iscontrol(peek) /\ peek # "\t"
       THEN Throw("Control characters are not allowed", last_char_offset(processed + 1))
       ELSE IF peek = "'"
       THEN Deliver("string", Top.string, "running", Rest, ret)
       ELSE Goto(Rest \o <<[Top EXCEPT !.string = Append(@, peek)]>>, ret)

\* parse_bool_or_number_or_symbol(), lines 648-669: the class of a token
\* and what becomes of it.
Classify(result) ==
    IF result = T_true
    THEN [out |-> "event", kind |-> "boolean", val |-> TRUE, type |-> "boolean"]
    ELSE IF result = T_false
    THEN [out |-> "event", kind |-> "boolean", val |-> FALSE, type |-> "boolean"]
    ELSE IF MatchInteger(result)
    THEN IF stoll(result).ok
         THEN [out |-> "event", kind |-> "integer", val |-> stoll(result).val,
               type |-> "integer"]
         ELSE [out |-> "std", what |-> stoll(result).what]
    ELSE IF MatchFloat(result)
    THEN IF stod(result).ok
         THEN [out |-> "event", kind |-> "floating_point", val |-> stod(result).val,
               type |-> "floating_point"]
         ELSE [out |-> "std", what |-> stod(result).what]
    ELSE IF MatchSymbol(result)
    THEN [out |-> "event", kind |-> "symbol", val |-> result, type |-> "symbol"]
    ELSE [out |-> "error", message |-> "Invalid value", offset |-> 0]

\* parse_bool_or_number_or_symbol(), lines 636-642: the first byte.
parse_bool_or_number_or_symbol ==
    /\ At("token")
    /\ Get(0)
    /\ IF ~is_word_character(peek)
       THEN Throw("Expected a non-empty symbol", last_char_offset(processed + 1))
       ELSE Goto(Rest \o <<[pc |-> "token_rest", result |-> <<peek>>]>>, ret)

\* parse_bool_or_number_or_symbol(), lines 644-669: the rest of the token,
\* then its classification, conversion and callback.
parse_token_rest ==
    /\ At("token_rest")
    /\ IF is_word_character(peek)
       THEN Get(0) /\ Goto(Rest \o <<[Top EXCEPT !.result = Append(@, peek)]>>, ret)
       ELSE /\ Keep
            /\ LET c == Classify(Top.result)
               IN  IF c.out = "event"
                   THEN Deliver(c.kind, c.val, "running", Rest, <<c.type>>)
                   ELSE IF c.out = "std"
                   THEN ThrowStd(c.what)
                   ELSE Throw(c.message, c.offset)

-----------------------------------------------------------------------------
(* Specifications.                                                         *)

\* parser_t's constructor on a byte source that starts with the bytes of
\* `prefix` and then produces at most `left` bytes of `alphabet`; when
\* `capped`, it keeps the bodies of comments and strings within MaxText.
StartOn(prefix, alphabet, left, capped) ==
    /\ \E first \in (IF prefix = <<>> THEN alphabet \cup {EOFc} ELSE {Head(prefix)}) :
           /\ la = first
           /\ source = [alphabet |-> alphabet,
                        left |-> IF prefix # <<>> THEN left
                                 ELSE IF first = EOFc THEN 0 ELSE left - 1,
                        capped |-> capped]
    /\ pending = IF prefix = <<>> THEN <<>> ELSE Tail(prefix)
    /\ processed = 0
    /\ consumed = <<>>
    /\ events = <<>>
    /\ stack = <<Frame("parse")>>
    /\ ret = None
    /\ status = "running"
    /\ err = NoErr

\* The same with short bodies of comments and strings.
Start(prefix, alphabet, left) == StartOn(prefix, alphabet, left, TRUE)

\* The byte sources of the main specification: documents of lines, headers
\* and comments; and, behind "a=", arrays, inline tables and strings.
Sources ==
    { [prefix |-> <<>>,         alphabet |-> {"a", "1", "=", "[", "]", "\n", "\r", "#", " "}],
      [prefix |-> <<"a", "=">>, alphabet |-> {"a", "1", "[", "]", ",", "\n", "#"}],
      [prefix |-> <<"a", "=">>, alphabet |-> {"a", "1", "=", "{", "}", ",", " ", "["}],
      [prefix |-> <<"a", "=">>, alphabet |-> {"a", "1", "\"", "[", "]", ",", "\n"}] }

Init == \E s \in Sources : Start(s.prefix, s.alphabet, MaxLen)

Next ==
    \/ parse_begin
    \/ parse_loop
    \/ skip_spaces
    \/ parse_comment
    \/ parse_comment_body
    \/ parse_new_line
    \/ parse_new_line_lf
    \/ skip_spaces_and_empty_lines
    \/ skip_lines_dispatch
    \/ parse_expression
    \/ trailing_comment
    \/ parse_kv_pair
    \/ parse_chars_eq
    \/ parse_key
    \/ parse_key_rest
    \/ parse_key_quoted
    \/ parse_table_header
    \/ parse_table_header_second
    \/ parse_table_header_key
    \/ parse_table_header_close
    \/ parse_table_header_close2
    \/ parse_value
    \/ parse_value_return
    \/ parse_array
    \/ parse_array_loop
    \/ parse_array_item
    \/ parse_array_separator
    \/ parse_inline_table
    \/ parse_inline_table_first
    \/ parse_inline_table_key
    \/ parse_inline_table_separator
    \/ parse_string
    \/ parse_string_second
    \/ parse_string_third
    \/ parse_string_deliver
    \/ parse_basic_string
    \/ parse_multiline_string
    \/ parse_multiline_body
    \/ parse_multiline_quote
    \/ parse_multiline_quote2
    \/ parse_bool_or_number_or_symbol
    \/ parse_token_rest

Spec == Init /\ [][Next]_vars

-----------------------------------------------------------------------------
(* The event sequence as the consumer sees it.                             *)

ScalarKinds == {"string", "integer", "floating_point", "boolean", "symbol"}

StartKinds == {"start_array", "start_inline_table"}

FinishKinds == {"finish_array", "finish_inline_table"}

ValueStartKinds == ScalarKinds \cup StartKinds

HeaderKinds == {"table", "array_table"}

Kinds(evs) == {evs[i].kind : i \in 1..Len(evs)}

\* The type tag of the value an event starts.
TagOf(kind) == IF kind = "start_array" THEN "array"
               ELSE IF kind = "start_inline_table" THEN "table"
               ELSE kind

\* Number of arrays and inline tables open after the first n events.
RECURSIVE Depth(_, _)
Depth(evs, n) ==
    IF n = 0 THEN 0
    ELSE Depth(evs, n - 1)
           + (IF evs[n].kind \in StartKinds THEN 1 ELSE 0)
           - (IF evs[n].kind \in FinishKinds THEN 1 ELSE 0)

\* Index of the event that completes the value starting at event j when d
\* containers of that value are open before event j; 0 when it is not
\* completed.
RECURSIVE ValueEnd(_, _, _)
ValueEnd(evs, j, d) ==
    IF j > Len(evs) THEN 0
    ELSE LET d2 == d + (IF evs[j].kind \in StartKinds THEN 1 ELSE 0)
                     - (IF evs[j].kind \in FinishKinds THEN 1 ELSE 0)
         IN  IF d2 <= 0 THEN j ELSE ValueEnd(evs, j + 1, d2)

\* The open containers after the events from i on were seen by a consumer
\* whose open containers are st (innermost last).  An entry counts what
\* was delivered directly in it: n elements or keys, the tag of its first
\* element, whether a completed element had another tag.  `bad` says that a
\* finish event did not close the innermost container of its kind with
\* the right count, `mixed` that an array with elements of several tags
\* was closed.
RECURSIVE Observe(_, _, _)
Observe(evs, i, o) ==
    IF i > Len(evs) THEN o
    ELSE
    LET k    == evs[i].kind
        st   == o.st
        top  == st[Len(st)]
        up   == SubSeq(st, 1, Len(st) - 1)
        \* a completed value of tag t arrives in the innermost container
        Arrive(s, t) ==
            IF s = <<>> \/ s[Len(s)].kind # "array" THEN s
            ELSE [s EXCEPT ![Len(s)] =
                    [@ EXCEPT !.n = @ + 1,
                              !.first = IF @ = "unset" THEN t ELSE @,
                              !.mixed = @ \/ (s[Len(s)].first \notin {"unset", t})]]
    IN  IF k \in ScalarKinds
        THEN Observe(evs, i + 1, [o EXCEPT !.st = Arrive(st, k)])
        ELSE IF k = "key"
        THEN Observe(evs, i + 1,
                     IF st # <<>> /\ top.kind = "table"
                     THEN [o EXCEPT !.st = up \o <<[top EXCEPT !.n = @ + 1]>>]
                     ELSE o)
        ELSE IF k \in StartKinds
        THEN Observe(evs, i + 1,
                     [o EXCEPT !.st = Append(st, [kind |-> TagOf(k), n |-> 0,
                                                  first |-> "unset", mixed |-> FALSE])])
        ELSE IF k \in FinishKinds
        THEN IF st = <<>>
             THEN [o EXCEPT !.bad = TRUE]
             ELSE Observe(evs, i + 1,
                     [st    |-> Arrive(up, top.kind),
                      bad   |-> o.bad \/ top.n # evs[i].val
                                      \/ (k = "finish_array") # (top.kind = "array"),
                      mixed |-> o.mixed \/ top.mixed])
        ELSE Observe(evs, i + 1, o)

Observed == Observe(events, 1, [st |-> <<>>, bad |-> FALSE, mixed |-> FALSE])

IsPrefix(a, b) == Len(a) <= Len(b) /\ SubSeq(b, 1, Len(a)) = a

Last(seq) == seq[Len(seq)]

-----------------------------------------------------------------------------
(* C1 *)

\* C1: in the events of a parse call that returned without error, every
\* key event is followed at once by the first event of a value (a scalar,
\* start_array or start_inline_table; no comment, key or header in
\* between), that value is complete, and the event after the complete
\* value starts no second value.  While the call is still running or has
\* failed, only the last key may lack (part of) its value.
C1_KeyThenOneValue ==
    \A i \in 1..Len(events) :
        events[i].kind = "key" =>
            IF i = Len(events) THEN status # "done"
            ELSE /\ events[i + 1].kind \in ValueStartKinds
                 /\ LET e == ValueEnd(events, i + 1, 0)
                    IN  IF e = 0 THEN status # "done"
                        ELSE e < Len(events) => events[e + 1].kind \notin ValueStartKinds

\* A call returned after a key whose value is an inline table with a pair
\* of its own.
C1_Witness ==
    /\ status = "done"
    /\ \E i \in 1..Len(events) :
           /\ events[i].kind = "key"
           /\ i + 3 <= Len(events)
           /\ events[i + 1].kind = "start_inline_table"
           /\ events[i + 2].kind = "key"
           /\ events[i + 3].kind \in ScalarKinds

-----------------------------------------------------------------------------
(* C2 *)

\* C2: whatever the input, every finish_array / finish_inline_table closes
\* the innermost open container, which is of its kind, and carries the
\* number of elements (of keys, for an inline table) delivered directly in
\* that container; comments and nested events are not counted.
C2_NestedWithCounts == ~Observed.bad

\* An array was closed with count 1 right after the array that is its one
\* element was closed with count 1: the nested element was not counted.
C2_Witness ==
    \E i \in 2..Len(events) :
        /\ events[i].kind = "finish_array"
        /\ events[i].ok
        /\ events[i].val = 1
        /\ events[i - 1].kind = "finish_array"
        /\ events[i - 1].val = 1

-----------------------------------------------------------------------------
(* C3 *)

Delivered(kind) == \E i \in 1..Len(events) : events[i].kind = kind /\ events[i].ok

-----------------------------------------------------------------------------
(* C4 *)

\* C4: when a table or array_table event is delivered, no array and no
\* inline table is open: each start event before it has its finish event
\* before it.
C4_HeadersAtTopLevel ==
    \A i \in 1..Len(events) :
        events[i].kind \in HeaderKinds => Depth(events, i - 1) = 0

\* A header was delivered after an array had been opened and closed.
C4_Witness ==
    \E i \in 1..Len(events) :
        /\ events[i].kind \in HeaderKinds
        /\ events[i].ok
        /\ \E j \in 1..(i - 1) : events[j].kind = "finish_array"

-----------------------------------------------------------------------------
(* C5 *)

Inhomogeneous == "All array elements must be of the same type"

\* Number of bytes of the value that text s starts with, told from the
\* bytes alone: a quoted string up to its closing quote, an array or
\* inline table up to the bracket that closes it (quotes inside hide
\* brackets), a bare token as far as its word characters go.
RECURSIVE ClosingAt(_, _, _, _)
ClosingAt(s, i, depth, quoted) ==
    IF i > Len(s) THEN 0
    ELSE IF quoted
    THEN IF s[i] = "\""
         THEN IF depth = 0 THEN i ELSE ClosingAt(s, i + 1, depth, FALSE)
         ELSE ClosingAt(s, i + 1, depth, TRUE)
    ELSE IF s[i] = "\"" THEN ClosingAt(s, i + 1, depth, TRUE)
    ELSE IF s[i] \in {"[", "{"} THEN ClosingAt(s, i + 1, depth + 1, FALSE)
    ELSE IF s[i] \in {"]", "}"}
    THEN IF depth = 1 THEN i ELSE ClosingAt(s, i + 1, depth - 1, FALSE)
    ELSE ClosingAt(s, i + 1, depth, FALSE)

ValueTextLen(s) ==
    IF s = <<>> THEN 0
    ELSE IF s[1] \in {"\"", "[", "{"} THEN ClosingAt(s, 1, 0, FALSE)
    ELSE RunLen(s, Lower \cup Upper \cup Digit \cup {"+", "-", "_", "."})

\* Offset off is where the value that ends the consumed input begins: the
\* bytes from off on are exactly one value, and the byte before is the
\* comma or the blank or line end skipped after it.
ElementStartsAt(off) ==
    /\ 1 <= off /\ off < Len(consumed)
    /\ consumed[off] \in {",", " ", "\t", "\n"}
    /\ LET s == From(consumed, off + 1)
       IN  ValueTextLen(s) = Len(s) /\ Len(s) > 0

OpenMixed == \E i \in 1..Len(Observed.st) : Observed.st[i].mixed

\* C5: no array is closed by finish_array after elements of different type
\* tags were delivered in it.  Once a completed element of an open array
\* differs in tag from the array's first element, nothing more is consumed
\* or delivered: the call is at the type check (or that element's own
\* callback raised), and the check fails the call with the 'All array
\* elements must be of the same type' error at the offset of that
\* element's first byte.  That error is raised for no other reason.
C5_HomogeneousArrays ==
    /\ ~Observed.mixed
    /\ OpenMixed =>
          \/ status = "running" /\ Top.pc \in {"array_item", "value_type"}
          \/ status = "consumer_failed" /\ ~Last(events).ok
          \/ /\ status = "error"
             /\ err.message = Inhomogeneous
             /\ ElementStartsAt(err.offset)
    /\ (status = "error" /\ err.message = Inhomogeneous) =>
          /\ OpenMixed
          /\ "finish_document" \notin Kinds(events)

\* The call failed on an array whose second element, a symbol after an
\* integer, begins on a line of its own.
C5_Witness ==
    /\ status = "error"
    /\ err.message = Inhomogeneous
    /\ Last(events).kind = "symbol"
    /\ consumed[err.offset] = "\n"
    /\ err.offset + 1 = Len(consumed)

-----------------------------------------------------------------------------
(* C6 *)

Raised == err # NoErr

\* C6: after parse has raised an error no step delivers an event or
\* consumes a byte, and the error raised stays the one raised; the step
\* that raises it delivers nothing, and no step ever takes back or alters
\* an event already delivered.
C6_ErrorStopsParsing ==
    [][ /\ IsPrefix(events, events')
        /\ Raised => UNCHANGED <<events, processed, consumed, la, err>>
        /\ (~Raised /\ Raised') => events' = events ]_vars

\* An error was raised inside an array inside a key/value pair, after six
\* events had been delivered.
C6_Witness ==
    /\ status = "error"
    /\ Len(events) >= 6
    /\ Depth(events, Len(events)) >= 1
    /\ \A i \in 1..Len(events) : events[i].ok

-----------------------------------------------------------------------------
(* C7 *)

Failed == events # <<>> /\ ~Last(events).ok

\* C7: a failure raised by a callback leaves parse as it was raised (it is
\* not turned into an error of the parser) and at once: the failed
\* callback is the last one invoked, and after it no byte is consumed.
C7_ConsumerFailurePropagates ==
    /\ [](\A i \in 1..Len(events) : ~events[i].ok =>
              /\ i = Len(events)
              /\ status = "consumer_failed"
              /\ err = NoErr)
    /\ [][Failed => UNCHANGED <<events, processed, consumed, la>>]_vars

\* The callback for an element of an array nested in an array failed.
C7_Witness ==
    /\ Failed
    /\ Last(events).kind \in ScalarKinds
    /\ Depth(events, Len(events)) >= 2

-----------------------------------------------------------------------------
(* Bare tokens: the documents `a=<token>`.                                 *)

TokenChars == {"0", "1", "a", "_", "+", "-", ".", "e"}

RECURSIVE SeqsUpTo(_, _)
SeqsUpTo(S, n) ==
    IF n = 0 THEN {<<>>}
    ELSE LET shorter == SeqsUpTo(S, n - 1)
         IN  shorter \cup {Append(t, c) : t \in shorter, c \in S}

\* 2^63, one more than the largest long long.
LLongMaxPlusOne ==
    <<"9","2","2","3","3","7","2","0","3","6","8","5","4","7","7","5","8","0","8">>

\* 1979-05-27T
DatePart == <<"1","9","7","9","-","0","5","-","2","7","T">>

\* The date-times of tests/complex.cpp: 1979-05-27T07:32:00Z,
\* 1979-05-27T00:32:00-07:00 and 1979-05-27T00:32:00.999999-07:00.
DateTimes ==
    { DatePart \o <<"0","7",":","3","2",":","0","0","Z">>,
      DatePart \o <<"0","0",":","3","2",":","0","0","-","0","7",":","0","0">>,
      DatePart \o <<"0","0",":","3","2",":","0","0",".","9","9","9","9","9","9",
                    "-","0","7",":","0","0">> }

\* Numbers with digit-group separators, as in tests/complex.cpp: 1_000,
\* 1_2_3_4_5 and a float, 1_0.0_1.
GroupedNumbers ==
    { <<"1","_","0","0","0">>,
      <<"1","_","2","_","3","_","4","_","5">>,
      <<"1","_","0",".","0","_","1">> }

Tokens == (SeqsUpTo(TokenChars, MaxTokLen) \ {<<>>})
              \cup {T_true, T_false, LLongMax, LLongMaxPlusOne}
              \cup DateTimes \cup GroupedNumbers

InitTok == \E tok \in Tokens : Start(<<"a", "=">> \o tok, {}, 0)

\* The steps parse() takes on such a document.
NextTok ==
    \/ parse_begin
    \/ parse_loop
    \/ parse_expression
    \/ trailing_comment
    \/ parse_kv_pair
    \/ parse_key
    \/ parse_key_rest
    \/ skip_spaces
    \/ parse_chars_eq
    \/ parse_value
    \/ parse_bool_or_number_or_symbol
    \/ parse_token_rest

SpecTok == InitTok /\ [][NextTok]_vars

-----------------------------------------------------------------------------
(* C8 *)

\* C8: every failure that parse raises by itself is a parser_error_t with
\* a message and a byte offset, whatever the input.
C8_SingleErrorKind ==
    Raised => /\ err.kind = "parser_error_t"
              /\ DOMAIN err = {"kind", "message", "offset"}

-----------------------------------------------------------------------------
(* C9 *)

\* The token of parse_bool_or_number_or_symbol() is complete and is about
\* to be classified.
TokenComplete == status = "running" /\ At("token_rest") /\ ~is_word_character(peek)

\* C9: every complete bare token that matches [A-Za-z_][A-Za-z0-9_]* and
\* is neither `true` nor `false` is delivered as one symbol event that
\* carries the text of the token.
C9_IdentifiersAreSymbols ==
    [][ (/\ TokenComplete
         /\ MatchSymbol(Top.result)
         /\ Top.result \notin {T_true, T_false})
        => /\ Len(events') = Len(events) + 1
           /\ IsPrefix(events, events')
           /\ Last(events').kind = "symbol"
           /\ Last(events').val = Top.result ]_vars

-----------------------------------------------------------------------------
(* C10 *)

\* The step delivers one more event, of the given kind and value.
Delivers(kind, val) ==
    /\ Len(events') = Len(events) + 1
    /\ IsPrefix(events, events')
    /\ Last(events').kind = kind
    /\ Last(events').val = val

\* C10: a complete bare token is delivered as an integer event exactly
\* when it consists of decimal digits only, and the value delivered is its
\* decimal value, which lies in the range of a 64-bit signed integer;
\* `true` and `false` are delivered as booleans before any other class is
\* tried.
C10_IntegerIffDigits ==
    [][ TokenComplete =>
          /\ Top.result = T_true => Delivers("boolean", TRUE)
          /\ Top.result = T_false => Delivers("boolean", FALSE)
          /\ AllDigits(Top.result) <=>
                /\ Delivers("integer", StripZeros(Top.result))
                /\ DigitsLeq(StripZeros(Top.result), LLongMax) ]_vars

-----------------------------------------------------------------------------
(* C11 *)

\* Digits with an optional fractional part behind a decimal point; the
\* digits may be left out on one side of the point.
FloatLiteralMantissa(m) ==
    \/ Len(m) > 0 /\ AllDigits(m)
    \/ \E i \in 1..Len(m) :
           /\ Len(m) >= 2
           /\ m[i] = "."
           /\ AllDigits(SubSeq(m, 1, i - 1))
           /\ AllDigits(From(m, i + 1))

\* An optional sign, such a mantissa and an optional exponent.
FloatLiteral(s) ==
    LET b == IF Len(s) > 0 /\ s[1] \in {"+", "-"} THEN Tail(s) ELSE s
    IN  \E k \in 0..Len(b) :
            FloatLiteralMantissa(SubSeq(b, 1, k)) /\ MatchExponent(From(b, k + 1))

\* The step delivers one more event, of the given kind.
DeliversKind(kind) ==
    /\ Len(events') = Len(events) + 1
    /\ IsPrefix(events, events')
    /\ Last(events').kind = kind

\* C11: a complete bare token is delivered as a floating_point event only
\* if it is an optional sign, digits with an optional fractional part
\* behind a literal decimal point, and an optional exponent; a token with
\* another character in the place of the point is not delivered as a
\* float.
C11_FloatOnlyForFloatLiterals ==
    [][ (TokenComplete /\ DeliversKind("floating_point"))
        => FloatLiteral(Top.result) ]_vars

-----------------------------------------------------------------------------
(* C12 *)

WordChars == Lower \cup Upper \cup Digit \cup {"+", "-", "_", "."}

RECURSIVE RunLenBack(_, _)
\* Length of the longest suffix of s made of bytes of set S.
RunLenBack(s, S) ==
    IF s # <<>> /\ s[Len(s)] \in S
    THEN 1 + RunLenBack(SubSeq(s, 1, Len(s) - 1), S)
    ELSE 0

\* Offset of the first byte of the bare token that ends the consumed input.
TokenStart == Len(consumed) - RunLenBack(consumed, WordChars)

\* A token of none of the four classes.
Unclassified(tok) ==
    /\ tok \notin {T_true, T_false}
    /\ ~AllDigits(tok)
    /\ ~FloatLiteral(tok)
    /\ ~MatchSymbol(tok)

\* C12: the step that classifies a complete bare token of none of the
\* classes boolean, integer, float and identifier fails the call with the
\* 'Invalid value' error, and the offset of that error is the offset of
\* the token's first byte.
C12_InvalidValueAtTokenStart ==
    [][ (TokenComplete /\ Unclassified(Top.result))
        => /\ status' = "error"
           /\ err' = [kind |-> "parser_error_t", message |-> "Invalid value",
                      offset |-> TokenStart] ]_vars

-----------------------------------------------------------------------------
(* C13 *)

\* A sign and then decimal digits.
SignedIntegerLiteral(tok) ==
    Len(tok) >= 2 /\ tok[1] \in {"+", "-"} /\ AllDigits(Tail(tok))

\* The value of such a literal, written as integer values are written in
\* the events: its decimal digits without leading zeros, behind a minus
\* sign when it is negative.
SignedValue(tok) ==
    LET d == StripZeros(Tail(tok))
    IN  IF tok[1] = "-" /\ d # <<"0">> THEN <<"-">> \o d ELSE d

\* C13: a complete bare token that is a sign followed by decimal digits is
\* delivered as an integer event with the signed value, not as a
\* floating_point event.
C13_SignedIntegers ==
    [][ (TokenComplete /\ SignedIntegerLiteral(Top.result))
        => Delivers("integer", SignedValue(Top.result)) ]_vars

-----------------------------------------------------------------------------
(* C14 *)

\* The whole input, when the source produces no byte beyond those fixed.
Document == consumed \o (IF la = EOFc THEN <<>> ELSE <<la>>) \o pending

\* C14: the call on a document `a=<date-time>` does not fail by itself,
\* and when it has returned it has delivered the date-time as one datetime
\* event that carries the literal text.
C14_DateTimeDelivered ==
    \A dt \in DateTimes :
        (source.left = 0 /\ Document = <<"a", "=">> \o dt) =>
            /\ status \in {"running", "done", "consumer_failed"}
            /\ status = "done" =>
                  /\ Cardinality({i \in 1..Len(events) : events[i].kind = "datetime"}) = 1
                  /\ \E i \in 1..Len(events) :
                         events[i].kind = "datetime" /\ events[i].val = dt

-----------------------------------------------------------------------------
(* C15 *)

RECURSIVE WithoutUnderscores(_)
WithoutUnderscores(tok) ==
    IF tok = <<>> THEN <<>>
    ELSE IF tok[1] = "_" THEN WithoutUnderscores(Tail(tok))
    ELSE <<tok[1]>> \o WithoutUnderscores(Tail(tok))

\* A number with digit-group separators: each underscore stands between
\* two digits, and the text without the underscores is delivered as an
\* integer or as a float.
GroupedNumber(tok) ==
    /\ \E i \in 1..Len(tok) : tok[i] = "_"
    /\ \A i \in 1..Len(tok) :
           tok[i] = "_" => /\ 1 < i /\ i < Len(tok)
                           /\ tok[i - 1] \in Digit /\ tok[i + 1] \in Digit
    /\ LET c == Classify(WithoutUnderscores(tok))
       IN  c.out = "event" /\ c.kind \in {"integer", "floating_point"}

\* C15: a complete bare token that is a number with digit-group separators
\* is delivered as the event, of the same kind and value, that the token
\* without its underscores is delivered as.
C15_DigitGroupSeparators ==
    [][ (TokenComplete /\ GroupedNumber(Top.result))
        => LET c == Classify(WithoutUnderscores(Top.result))
           IN  Delivers(c.kind, c.val) ]_vars

-----------------------------------------------------------------------------
(* Table headers: documents of header lines.                               *)

HeaderAlphabet == {"a", "b", ".", "[", "]", " ", "\n"}

InitHdr == Start(<<"[">>, HeaderAlphabet, MaxLen)

\* The steps parse() takes on such a document.
NextHdr ==
    \/ parse_begin
    \/ parse_loop
    \/ parse_new_line
    \/ parse_expression
    \/ trailing_comment
    \/ skip_spaces
    \/ parse_table_header
    \/ parse_table_header_second
    \/ parse_table_header_key
    \/ parse_table_header_close
    \/ parse_table_header_close2
    \/ parse_key
    \/ parse_key_rest
    \/ parse_kv_pair
    \/ parse_chars_eq

SpecHdr == InitHdr /\ [][NextHdr]_vars

-----------------------------------------------------------------------------
(* C16 *)

KeyChars == Lower \cup Upper \cup Digit \cup {"-", "_"}

RECURSIVE SkipBlanks(_)
SkipBlanks(s) ==
    IF s # <<>> /\ s[1] \in {" ", "\t"} THEN SkipBlanks(Tail(s)) ELSE s

RECURSIVE LinesOf(_, _)
\* The lines of text s behind the unfinished line cur, split at "\n".
LinesOf(s, cur) ==
    IF s = <<>> THEN <<cur>>
    ELSE IF s[1] = "\n" THEN <<cur>> \o LinesOf(Tail(s), <<>>)
    ELSE LinesOf(Tail(s), Append(cur, s[1]))

RECURSIVE Segments(_, _, _)
\* The dot-separated bare keys of header text s up to its closing bracket
\* (two brackets for an array item), behind the segments of `path`; <<>>
\* when the text is not a complete header.
Segments(s, array_item, path) ==
    LET b1   == SkipBlanks(s)
        n    == RunLen(b1, KeyChars)
        b2   == SkipBlanks(From(b1, n + 1))
        more == Append(path, SubSeq(b1, 1, n))
    IN  IF n = 0 \/ b2 = <<>> THEN <<>>
        ELSE IF b2[1] = "."
        THEN Segments(Tail(b2), array_item, more)
        ELSE IF b2[1] = "]" /\ (~array_item \/ (Len(b2) >= 2 /\ b2[2] = "]"))
        THEN more
        ELSE <<>>

\* The header that line begins with, as the event it stands for; <<>>
\* when the line begins with no complete header.
HeaderOf(line) ==
    LET s0   == SkipBlanks(line)
        arr  == Len(s0) >= 2 /\ s0[2] = "["
        path == Segments(From(s0, IF arr THEN 3 ELSE 2), arr, <<>>)
    IN  IF s0 = <<>> \/ s0[1] # "[" \/ path = <<>> THEN <<>>
        ELSE <<[kind |-> IF arr THEN "array_table" ELSE "table", val |-> path]>>

RECURSIVE HeadersOfLines(_)
HeadersOfLines(lines) ==
    IF lines = <<>> THEN <<>>
    ELSE HeaderOf(Head(lines)) \o HeadersOfLines(Tail(lines))

\* The headers written in text s, line by line, in source order.
HeadersIn(s) == HeadersOfLines(LinesOf(s, <<>>))

RECURSIVE HeaderEvents(_)
\* The header events among evs, with kind and path.
HeaderEvents(evs) ==
    IF evs = <<>> THEN <<>>
    ELSE (IF evs[1].kind \in HeaderKinds
          THEN <<[kind |-> evs[1].kind, val |-> evs[1].val]>> ELSE <<>>)
         \o HeaderEvents(Tail(evs))

\* C16: in a document of header lines, the table and array_table events
\* delivered are exactly the headers written in the input consumed so
\* far, one event for each header and in source order: table for `[...]`,
\* array_table for `[[...]]`, each with the header's dot-separated
\* segments in order.  No path is empty, and a header that repeats an
\* earlier one has an event of its own.
C16_HeaderEvents ==
    /\ HeaderEvents(events) = HeadersIn(consumed)
    /\ \A i \in 1..Len(events) :
           events[i].kind \in HeaderKinds => Len(events[i].val) >= 1

\* An array_table event was delivered for `[[a.b]]`.
C16_Witness ==
    /\ events # <<>>
    /\ Last(events) = [kind |-> "array_table", val |-> <<<<"a">>, <<"b">>>>, ok |-> TRUE]

\* Two table events with the same path were delivered.
C16_WitnessRepeated ==
    \E i, j \in 1..Len(events) :
        /\ i < j
        /\ events[i].kind = "table" /\ events[j].kind = "table"
        /\ events[i].val = events[j].val
        /\ events[j].ok

-----------------------------------------------------------------------------
(* Strings: the documents `a=<string>`.                                    *)

\* The byte sources behind the opening quotes of a multiline basic string,
\* of a multiline literal string, of a basic string, of a literal string,
\* and behind a backslash at the end of the first line of a multiline
\* basic string.
StringSources ==
    { [prefix |-> <<"a", "=", "\"", "\"", "\"">>,
       alphabet |-> {"\"", "\\", "\n", "\r", "b"}],
      [prefix |-> <<"a", "=", "'", "'", "'">>,
       alphabet |-> {"'", "\n", "\r", "b"}],
      [prefix |-> <<"a", "=", "\"">>,
       alphabet |-> {"\"", "\\", "b", "q", "\n"}],
      [prefix |-> <<"a", "=", "'">>,
       alphabet |-> {"'", "\\", "b", "\t", "\n"}],
      [prefix |-> <<"a", "=", "\"", "\"", "\"", "a", "\\">>,
       alphabet |-> {"\"", "\n", " ", "b"}] }

\* Unicode escapes at the borders of the surrogate range and of the code
\* space, one of two bytes, one with a digit that is not hexadecimal, and
\* an escape character that is none.
CodepointEscapes ==
    { <<"\\", "q">>,
      <<"\\", "u", "D", "7", "F", "F">>,
      <<"\\", "u", "D", "8", "0", "0">>,
      <<"\\", "u", "D", "F", "F", "F">>,
      <<"\\", "u", "E", "0", "0", "0">>,
      <<"\\", "u", "0", "0", "e", "9">>,
      <<"\\", "u", "0", "0", "g", "0">>,
      <<"\\", "U", "0", "0", "1", "0", "F", "F", "F", "F">>,
      <<"\\", "U", "0", "0", "1", "1", "0", "0", "0", "0">>,
      <<"\\", "U", "F", "F", "F", "F", "F", "F", "F", "F">> }

\* Each of them behind one character in a basic string and in a multiline
\* basic string.
EscapeDocuments ==
    { <<"a", "=", "\"", "b">> \o e \o <<"\"">> : e \in CodepointEscapes }
    \cup { <<"a", "=", "\"", "\"", "\"", "b">> \o e \o <<"\"", "\"", "\"">> :
               e \in CodepointEscapes }

InitStr ==
    \/ \E s \in StringSources : StartOn(s.prefix, s.alphabet, MaxLen, FALSE)
    \/ \E d \in EscapeDocuments : StartOn(d, {}, 0, FALSE)

\* The steps parse() takes on such a document.
NextStr ==
    \/ parse_begin
    \/ parse_loop
    \/ parse_new_line
    \/ parse_new_line_lf
    \/ parse_expression
    \/ trailing_comment
    \/ skip_spaces
    \/ parse_kv_pair
    \/ parse_key
    \/ parse_key_rest
    \/ parse_key_quoted
    \/ parse_chars_eq
    \/ parse_value
    \/ parse_value_return
    \/ parse_string
    \/ parse_string_second
    \/ parse_string_third
    \/ parse_string_deliver
    \/ parse_basic_string
    \/ parse_basic_escape
    \/ parse_hex_digit
    \/ parse_codepoint
    \/ parse_multiline_string
    \/ parse_multiline_body
    \/ parse_multiline_quote
    \/ parse_multiline_quote2
    \/ parse_multiline_backslash
    \/ parse_multiline_splice
    \/ parse_literal_string
    \/ parse_literal_second
    \/ parse_literal_third
    \/ parse_literal_open
    \/ parse_literal_multiline
    \/ parse_literal_quote
    \/ parse_literal_quote2
    \/ parse_literal_body

SpecStr == InitStr /\ [][NextStr]_vars

-----------------------------------------------------------------------------
(* C17 *)

\* Text s is `a=`, three quotes of one kind, a body, and three quotes of
\* that kind.
MultilineText(s) ==
    /\ Len(s) >= 8
    /\ s[1] = "a" /\ s[2] = "="
    /\ s[3] \in {"\"", "'"}
    /\ s[4] = s[3] /\ s[5] = s[3]
    /\ \A i \in Len(s) - 2 .. Len(s) : s[i] = s[3]

\* The body of such a text.
BodyOf(s) == SubSeq(s, 6, Len(s) - 3)

RECURSIVE LineEndsAsLF(_)
\* Text s with each line terminator, "\n" or "\r\n", written as "\n".
LineEndsAsLF(s) ==
    IF s = <<>> THEN <<>>
    ELSE IF Len(s) >= 2 /\ s[1] = "\r" /\ s[2] = "\n"
    THEN <<"\n">> \o LineEndsAsLF(From(s, 3))
    ELSE <<s[1]>> \o LineEndsAsLF(Tail(s))

\* Text s without the one line terminator it may begin with.
TrimFirstLineEnd(s) ==
    IF s # <<>> /\ s[1] = "\n" THEN Tail(s)
    ELSE IF Len(s) >= 2 /\ s[1] = "\r" /\ s[2] = "\n" THEN From(s, 3)
    ELSE s

HasBackslash(s) == \E i \in 1..Len(s) : s[i] = "\\"

\* C17: the string delivered for a multiline basic string without
\* backslash, or for a multiline literal string, is its body without the
\* one line terminator directly behind the opening quotes and with every
\* later line terminator, "\n" or "\r\n", as a single "\n".
C17_MultilineLineEnds ==
    [][ (/\ DeliversKind("string")
         /\ MultilineText(consumed')
         /\ (consumed'[3] = "\"" => ~HasBackslash(BodyOf(consumed'))))
        => Last(events').val = LineEndsAsLF(TrimFirstLineEnd(BodyOf(consumed'))) ]_vars

\* The string "\nb" was delivered for a multiline basic string whose body
\* is two line feeds and b.
C17_Witness ==
    /\ consumed = <<"a", "=", "\"", "\"", "\"", "\n", "\n", "b", "\"", "\"", "\"">>
    /\ Last(events) = [kind |-> "string", val |-> <<"\n", "b">>, ok |-> TRUE]

\* The same for a multiline literal string with "\r\n" line ends.
C17_WitnessLiteral ==
    /\ consumed = <<"a", "=", "'", "'", "'", "\r", "\n", "\n", "'", "'", "'">>
    /\ Last(events) = [kind |-> "string", val |-> <<"\n">>, ok |-> TRUE]

-----------------------------------------------------------------------------
(* C18 *)

RECURSIVE DropSpace(_)
\* Text s without the white space it begins with.
DropSpace(s) ==
    IF s # <<>> /\ s[1] \in {" ", "\t", "\n", "\r", "\f", VTc}
    THEN DropSpace(Tail(s))
    ELSE s

\* Position i of s holds a line terminator, "\n" or "\r\n".
LineEndAt(s, i) ==
    \/ i <= Len(s) /\ s[i] = "\n"
    \/ i + 1 <= Len(s) /\ s[i] = "\r" /\ s[i + 1] = "\n"

RECURSIVE Spliced(_)
\* Text s with each backslash at a line end removed together with the
\* line terminator and all white space behind it.
Spliced(s) ==
    IF s = <<>> THEN <<>>
    ELSE IF s[1] = "\\" /\ LineEndAt(s, 2)
    THEN Spliced(DropSpace(Tail(s)))
    ELSE <<s[1]>> \o Spliced(Tail(s))

\* Every backslash of s stands directly before a line terminator, and
\* there is one.
OnlySplices(s) ==
    /\ HasBackslash(s)
    /\ \A i \in 1..Len(s) : s[i] = "\\" => LineEndAt(s, i + 1)

\* C18: in a multiline basic string whose backslashes all stand directly
\* before a line terminator, each such backslash, the line terminator and
\* all white space that follows (blanks, tabs, further line terminators)
\* contribute nothing to the delivered string.
C18_LineSplice ==
    [][ (/\ DeliversKind("string")
         /\ MultilineText(consumed')
         /\ consumed'[3] = "\""
         /\ OnlySplices(BodyOf(consumed')))
        => Last(events').val =
               LineEndsAsLF(Spliced(TrimFirstLineEnd(BodyOf(consumed')))) ]_vars

\* The string "ab" was delivered for a, a backslash, a line feed, a blank
\* and b.
C18_Witness ==
    /\ consumed = <<"a", "=", "\"", "\"", "\"", "a", "\\", "\n", " ", "b", "\"", "\"", "\"">>
    /\ Last(events) = [kind |-> "string", val |-> <<"a", "b">>, ok |-> TRUE]

\* The same with a second line terminator behind the spliced one.
C18_WitnessLines ==
    /\ consumed = <<"a", "=", "\"", "\"", "\"", "a", "\\", "\n", "\n", "b", "\"", "\"", "\"">>
    /\ Last(events) = [kind |-> "string", val |-> <<"a", "b">>, ok |-> TRUE]

-----------------------------------------------------------------------------
(* C19 *)

\* The messages of the errors raised while an escape sequence is decoded.
EscapeErrors ==
    { "Invalid escape-sequence",
      "Surrogate pairs are not allowed",
      "Codepoint must be less or equal than 0x10FFFF" }

\* An error of that kind was raised.
EscapeError == status = "error" /\ err.message \in EscapeErrors

\* The number of bytes of the escape sequence that begins at offset o of
\* the consumed bytes: backslash and one character, or backslash, u or U
\* and four or eight digits.
EscapeLength(o) ==
    IF err.message = "Invalid escape-sequence" THEN 2
    ELSE IF o + 2 <= Len(consumed) /\ consumed[o + 2] = "u" THEN 6
    ELSE 10

\* C19: an error raised while an escape sequence is decoded (unknown
\* escape character, surrogate code point, code point above 0x10FFFF)
\* carries the offset of the backslash that starts the sequence: the byte
\* at that offset is a backslash and the bytes read end with the sequence
\* it starts.
C19_EscapeErrorAtBackslash ==
    EscapeError =>
        /\ err.offset + 1 <= Len(consumed)
        /\ consumed[err.offset + 1] = "\\"
        /\ processed = err.offset + EscapeLength(err.offset)

\* \uD800 behind one character of a basic string: the error is at offset
\* 4, the backslash, and not at offset 9, the last digit.
C19_Witness ==
    /\ consumed = <<"a", "=", "\"", "b", "\\", "u", "D", "8", "0", "0">>
    /\ status = "error"
    /\ err = [kind |-> "parser_error_t", message |-> "Surrogate pairs are not allowed", offset |-> 4]

\* An unknown escape character in a multiline basic string.
C19_WitnessInvalid ==
    /\ consumed = <<"a", "=", "\"", "\"", "\"", "b", "\\", "q">>
    /\ status = "error"
    /\ err = [kind |-> "parser_error_t", message |-> "Invalid escape-sequence", offset |-> 6]

\* A code point above 0x10FFFF.
C19_WitnessRange ==
    /\ consumed = <<"a", "=", "\"", "b", "\\", "U", "0", "0", "1", "1", "0", "0", "0", "0">>
    /\ status = "error"
    /\ err = [kind |-> "parser_error_t",
             message |-> "Codepoint must be less or equal than 0x10FFFF", offset |-> 4]

-----------------------------------------------------------------------------
(* C20 *)

RECURSIVE BasicScan(_, _)
\* Reading the body of a basic string from position i of s: "closed" at an
\* unescaped quote, "escape" if s ends directly behind a backslash that
\* starts an escape sequence, "open" if it ends elsewhere.
BasicScan(s, i) ==
    IF i > Len(s) THEN (IF i = Len(s) + 1 THEN "open" ELSE "escape")
    ELSE IF s[i] = "\"" THEN "closed"
    ELSE IF s[i] = "\\" THEN BasicScan(s, i + 2)
    ELSE BasicScan(s, i + 1)

\* The input is a key, `=` and a basic string that was never closed, and
\* the parser has read past its last byte.
EndedInBasicString ==
    /\ Len(consumed) >= 3
    /\ consumed[1] = "a" /\ consumed[2] = "=" /\ consumed[3] = "\""
    /\ BasicScan(consumed, 4) # "closed"
    /\ processed = Len(consumed) + 1

\* C20 as stated: when the input ends inside a basic string that was never
\* closed, the error carries the total number of bytes of the input.
C20_UnterminatedAtInputLength ==
    EndedInBasicString =>
        /\ status = "error"
        /\ err.offset = Len(consumed)

\* C20, amended: when the input ends inside a basic string that was never
\* closed, parse fails; the offset of the error is the total number of
\* bytes of the input, unless the input ends directly behind a backslash
\* that starts an escape sequence: then the error is "Invalid
\* escape-sequence" at the offset of that backslash, one less.
C20_UnterminatedBasicString ==
    EndedInBasicString =>
        /\ status = "error"
        /\ IF BasicScan(consumed, 4) = "escape"
           THEN /\ err.message = "Invalid escape-sequence"
                /\ err.offset = Len(consumed) - 1
           ELSE err.offset = Len(consumed)

\* The input a="bq ended: the error is at offset 5, its length.
C20_Witness ==
    /\ consumed = <<"a", "=", "\"", "b", "q">>
    /\ processed = 6
    /\ status = "error"
    /\ err = [kind |-> "parser_error_t",
              message |-> "Control characters must be escaped", offset |-> 5]

\* The input a="b\ ended: the error is at offset 4, the backslash.
C20_WitnessEscape ==
    /\ consumed = <<"a", "=", "\"", "b", "\\">>
    /\ processed = 6
    /\ status = "error"
    /\ err = [kind |-> "parser_error_t",
              message |-> "Invalid escape-sequence", offset |-> 4]

-----------------------------------------------------------------------------
(* TOMLHandler, the consumer of ConfigReader::parse and parseConfig.  Its  *)
(* state is a function of the events delivered so far.                     *)

\* std::map<std::string, TOMLValue>: a function from keys to values.
EmptyMap == <<>>

HasKey(m, k) == k \in DOMAIN m

\* m[k] = v of std::map: inserts or overwrites.
assign(m, k, v) == [x \in DOMAIN m \cup {k} |-> IF x = k THEN v ELSE m[x]]

\* m.emplace(k, v) of std::map: inserts only if no element has key k.
emplace(m, k, v) == IF HasKey(m, k) THEN m ELSE assign(m, k, v)

\* A TOMLHandler after construction.
TOMLHandler == [configs_ |-> EmptyMap, curr_key_ |-> <<>>, thrown |-> "none"]

\* The TOMLValue made from a scalar event.
TOMLValue(e) == [type |-> e.kind, value |-> e.val]

\* TOMLHandler::symbol(value).
symbol(h, value) ==
    IF ~HasKey(h.configs_, value)
    THEN [h EXCEPT !.thrown = "std::runtime_error"]
    ELSE [h EXCEPT !.configs_ = emplace(@, h.curr_key_, h.configs_[value])]

\* A faulty handler: table() returns.
UnsupportedKinds_table_returns ==
    {"array_table", "start_array", "finish_array",
     "start_inline_table", "finish_inline_table", "datetime"}

\* The callbacks that throw UnsupportedTOMLExpressionError.
UnsupportedKinds ==
    {"array_table", "table", "start_array", "finish_array",
     "start_inline_table", "finish_inline_table", "datetime"}

\* The callback of handler h for event e.
Handle(h, e) ==
    IF e.kind \in UnsupportedKinds
    THEN [h EXCEPT !.thrown = "UnsupportedTOMLExpressionError"]
    ELSE IF e.kind = "key" THEN [h EXCEPT !.curr_key_ = e.val]
    ELSE IF e.kind \in {"boolean", "string", "integer", "floating_point"}
    THEN [h EXCEPT !.configs_ = assign(@, h.curr_key_, TOMLValue(e))]
    ELSE IF e.kind = "symbol" THEN symbol(h, e.val)
    ELSE h

RECURSIVE Handled(_)
\* The handler after the callbacks for evs, in order.
Handled(evs) ==
    IF evs = <<>> THEN TOMLHandler
    ELSE CHOOSE after \in { Handle(h, evs[Len(evs)]) :
                                 h \in {Handled(SubSeq(evs, 1, Len(evs) - 1))} } : TRUE

\* The callback for the last event returned exactly if TOMLHandler's does.
HandledByTOMLHandler ==
    events # <<>> => Last(events).ok = (Handled(events).thrown = "none")

\* What ConfigReader::parse returns: the map, if loltoml::parse returned.
ConfigReader_parse ==
    IF status = "done" THEN [returned |-> TRUE, map |-> Handled(events).configs_]
    ELSE [returned |-> FALSE]

\* The inputs of ConfigReader::parse: two keys already set and more lines;
\* any lines of keys, values and comments; and, behind a first key-value,
\* headers, arrays and inline tables.
ConfigSources ==
    { [prefix |-> <<"a", "=", "1", "\n", "b", "=", "1", "1", "\n">>,
       alphabet |-> {"a", "b", "=", "1", "\n"}],
      [prefix |-> <<>>,
       alphabet |-> {"a", "b", "=", "1", "\n", "#"}],
      [prefix |-> <<"a", "=", "1", "\n">>,
       alphabet |-> {"a", "=", "[", "]", "\n"}],
      [prefix |-> <<"a", "=", "1", "\n", "b", "=">>,
       alphabet |-> {"{", "}", "[", "]", "1", "\n"}] }

InitCfg == \E s \in ConfigSources : Start(s.prefix, s.alphabet, MaxLen)

\* loltoml::parse(input, handler) with a TOMLHandler as the consumer.
NextCfg ==
    \/ parse_begin /\ HandledByTOMLHandler'
    \/ parse_loop /\ HandledByTOMLHandler'
    \/ skip_spaces /\ HandledByTOMLHandler'
    \/ parse_comment /\ HandledByTOMLHandler'
    \/ parse_comment_body /\ HandledByTOMLHandler'
    \/ parse_new_line /\ HandledByTOMLHandler'
    \/ parse_expression /\ HandledByTOMLHandler'
    \/ trailing_comment /\ HandledByTOMLHandler'
    \/ parse_kv_pair /\ HandledByTOMLHandler'
    \/ parse_chars_eq /\ HandledByTOMLHandler'
    \/ parse_key /\ HandledByTOMLHandler'
    \/ parse_key_rest /\ HandledByTOMLHandler'
    \/ parse_table_header /\ HandledByTOMLHandler'
    \/ parse_table_header_second /\ HandledByTOMLHandler'
    \/ parse_table_header_key /\ HandledByTOMLHandler'
    \/ parse_table_header_close /\ HandledByTOMLHandler'
    \/ parse_table_header_close2 /\ HandledByTOMLHandler'
    \/ parse_value /\ HandledByTOMLHandler'
    \/ parse_array /\ HandledByTOMLHandler'
    \/ parse_inline_table /\ HandledByTOMLHandler'
    \/ parse_bool_or_number_or_symbol /\ HandledByTOMLHandler'
    \/ parse_token_rest /\ HandledByTOMLHandler'

SpecCfg == InitCfg /\ [][NextCfg]_vars

-----------------------------------------------------------------------------
(* C21 *)

\* C21: when a symbol value names a key that is defined, the handler's
\* map afterwards holds for the assigned key a copy of the value the named
\* key had, also when the assigned key already held a value, and the other
\* keys keep their values; a symbol that names an undefined key raises an
\* error.
C21_SymbolCopiesValue ==
    [][ DeliversKind("symbol") =>
          LET before == Handled(events)
              after  == Handled(events')
              named  == Last(events').val
          IN  IF HasKey(before.configs_, named)
              THEN /\ Last(events').ok
                   /\ HasKey(after.configs_, before.curr_key_)
                   /\ after.configs_[before.curr_key_] = before.configs_[named]
                   /\ \A k \in DOMAIN before.configs_ :
                          k # before.curr_key_ => after.configs_[k] = before.configs_[k]
              ELSE ~Last(events').ok /\ status' = "consumer_failed" ]_vars

-----------------------------------------------------------------------------
(* C22 *)

\* The events that begin a table header, an array-of-tables header, an
\* array or an inline table.
ConstructKinds == {"table", "array_table", "start_array", "start_inline_table"}

\* C22: with TOMLHandler, the event of a table header, array-of-tables
\* header, array or inline table makes the parse call fail with
\* UnsupportedTOMLExpressionError: it is the last event, no map is
\* returned, and the map holds what was stored before it; without such an
\* event that error is never raised.
C22_UnsupportedConstructs ==
    LET h == Handled(events)
        construct == events # <<>> /\ Last(events).kind \in ConstructKinds
    IN  /\ \A i \in 1..Len(events) - 1 :
               events[i].kind \notin ConstructKinds \cup FinishKinds
        /\ construct =>
               /\ status = "consumer_failed"
               /\ h.thrown = "UnsupportedTOMLExpressionError"
               /\ ~ConfigReader_parse.returned
               /\ h.configs_ = Handled(SubSeq(events, 1, Len(events) - 1)).configs_
        /\ h.thrown = "UnsupportedTOMLExpressionError" => construct

\* A table header behind a key-value pair: the parse call has failed at
\* the header and the map holds the pair.
C22_Witness ==
    /\ consumed = <<"a", "=", "1", "\n", "[", "a", "]">>
    /\ status = "consumer_failed"
    /\ Last(events).kind = "table"
    /\ Handled(events).thrown = "UnsupportedTOMLExpressionError"
    /\ HasKey(Handled(events).configs_, <<"a">>)

\* The same for an array-of-tables header, an array and an inline table.
C22_WitnessArrayTable ==
    status = "consumer_failed" /\ Last(events).kind = "array_table"

C22_WitnessArray ==
    status = "consumer_failed" /\ Last(events).kind = "start_array"

C22_WitnessInlineTable ==
    status = "consumer_failed" /\ Last(events).kind = "start_inline_table"

\* A document of comments and key-values was parsed and its map returned.
C22_WitnessReturned ==
    /\ ConfigReader_parse.returned
    /\ DOMAIN ConfigReader_parse.map = {<<"a">>}
    /\ \E i \in 1..Len(events) : events[i].kind = "comment"

-----------------------------------------------------------------------------
(* Documents of top-level lines: behind a first key-value pair or table    *)
(* header come blanks, comments, line ends and further pairs.              *)

LineSources ==
    { [prefix |-> <<"a", "=", "1">>,
       alphabet |-> {" ", "a", "=", "\n", "\r", "#"}],
      [prefix |-> <<"[", "a", "]">>,
       alphabet |-> {" ", "a", "=", "\n", "\r", "#"}] }

InitLine == \E s \in LineSources : Start(s.prefix, s.alphabet, MaxLen)

NextLine ==
    \/ parse_begin
    \/ parse_loop
    \/ skip_spaces
    \/ parse_comment
    \/ parse_comment_body
    \/ parse_new_line
    \/ parse_new_line_lf
    \/ parse_expression
    \/ trailing_comment
    \/ parse_kv_pair
    \/ parse_chars_eq
    \/ parse_key
    \/ parse_key_rest
    \/ parse_table_header
    \/ parse_table_header_second
    \/ parse_table_header_key
    \/ parse_table_header_close
    \/ parse_value
    \/ parse_bool_or_number_or_symbol
    \/ parse_token_rest

SpecLine == InitLine /\ [][NextLine]_vars

-----------------------------------------------------------------------------
(* C23 *)

\* The number of key-value pairs and table headers among evs.
Expressions(evs) ==
    Cardinality({i \in 1..Len(evs) : evs[i].kind \in {"key"} \cup HeaderKinds})

\* The number of line feeds in text s.
LineFeeds(s) == Cardinality({i \in 1..Len(s) : s[i] = "\n"})

\* Text s up to its first '#'.
BeforeComment(s) ==
    IF \E i \in 1..Len(s) : s[i] = "#"
    THEN SubSeq(s, 1, (CHOOSE i \in 1..Len(s) :
                          s[i] = "#" /\ \A j \in 1..i - 1 : s[j] # "#") - 1)
    ELSE s

\* Text s is blank up to an optional "\r" at its end.
BlankRest(s) ==
    LET b == SkipBlanks(s) IN b = <<>> \/ b = <<"\r">>

\* Text s, a line without its comment, is blank or holds one key-value
\* pair of a bare key and a bare token, or one table header, and behind it
\* only blanks.
OneExpression(s) ==
    LET s0 == SkipBlanks(s)
        n  == RunLen(s0, KeyChars)
        s1 == SkipBlanks(From(s0, n + 1))
        s2 == SkipBlanks(Tail(s1))
        m  == RunLen(s2, WordChars)
    IN  \/ BlankRest(s0)
        \/ /\ s0[1] = "["
           /\ \E i \in 2..Len(s0) :
                  /\ s0[i] = "]"
                  /\ \A j \in 2..i - 1 : s0[j] # "]"
                  /\ BlankRest(From(s0, i + 1))
        \/ /\ n > 0
           /\ s1 # <<>> /\ s1[1] = "="
           /\ m > 0
           /\ BlankRest(From(s2, m + 1))

\* C23: top-level expressions are separated by line terminators.  There
\* is never more than one key-value pair or table header for each line
\* begun; a document that was parsed to its end has on every line at most
\* one expression, followed only by blanks and a comment, and no "\r"
\* without "\n"; and the 'Expected new-line' error is raised at the byte
\* read last, which is no line feed.
C23_OneExpressionPerLine ==
    /\ Expressions(events) <= LineFeeds(consumed) + 1
    /\ status = "done" =>
           LET lines == LinesOf(consumed, <<>>)
           IN  /\ \A k \in 1..Len(lines) : OneExpression(BeforeComment(lines[k]))
               /\ \A i \in 1..Len(consumed) :
                      consumed[i] = "\r" => i < Len(consumed) /\ consumed[i + 1] = "\n"
    /\ (status = "error" /\ err.message = "Expected new-line") =>
           /\ err.offset = processed - 1
           /\ err.offset < Len(consumed) => consumed[err.offset + 1] # "\n"

\* A second pair on the line of the first: the error is at its first
\* byte, and its key was not delivered.
C23_Witness ==
    /\ consumed = <<"a", "=", "1", " ", "a">>
    /\ status = "error"
    /\ err = [kind |-> "parser_error_t", message |-> "Expected new-line", offset |-> 4]
    /\ Expressions(events) = 1

\* "\r" without "\n" behind a table header.
C23_WitnessCR ==
    /\ consumed = <<"[", "a", "]", "\r", "a">>
    /\ status = "error"
    /\ err = [kind |-> "parser_error_t", message |-> "Expected new-line", offset |-> 4]

\* Two pairs on two lines, the first with a comment and "\r\n".
C23_WitnessTwoLines ==
    /\ consumed = <<"a", "=", "1", "#", "\r", "\n", "a", "=", "a">>
    /\ status = "done"
    /\ Expressions(events) = 2

-----------------------------------------------------------------------------
(* C24 *)

\* The number of '"' in text s.
Quotes(s) == Cardinality({i \in 1..Len(s) : s[i] = "\""})

\* C24: a multiline basic string ends at the first three consecutive '"'
\* the scan reaches: the body read up to them holds no three '"' in a row
\* and does not end in one; the '"' of the body, which stand alone or in
\* pairs before another character, are all copied to the delivered string
\* in their places.
C24_QuotesInMultiline ==
    [][ (/\ DeliversKind("string")
         /\ MultilineText(consumed')
         /\ consumed'[3] = "\""
         /\ ~HasBackslash(BodyOf(consumed')))
        => LET body == BodyOf(consumed')
               val  == Last(events').val
               text == LineEndsAsLF(TrimFirstLineEnd(body))
           IN  /\ \A i \in 1..Len(body) - 2 :
                      ~(body[i] = "\"" /\ body[i + 1] = "\"" /\ body[i + 2] = "\"")
               /\ body # <<>> => body[Len(body)] # "\""
               /\ Quotes(val) = Quotes(body)
               /\ Len(val) = Len(text)
               /\ \A i \in 1..Len(val) : (val[i] = "\"") = (text[i] = "\"") ]_vars

\* Two '"' and a letter in the body of a delivered string.
C24_Witness ==
    /\ consumed = <<"a", "=", "\"", "\"", "\"", "\"", "\"", "b", "\"", "\"", "\"">>
    /\ Last(events) = [kind |-> "string", val |-> <<"\"", "\"", "b">>, ok |-> TRUE]

\* One '"' between two letters.
C24_WitnessOne ==
    /\ consumed = <<"a", "=", "\"", "\"", "\"", "b", "\"", "b", "\"", "\"", "\"">>
    /\ Last(events) = [kind |-> "string", val |-> <<"b", "\"", "b">>, ok |-> TRUE]

-----------------------------------------------------------------------------
(* Basic strings of one Unicode escape: behind `a="\u`, or `a="\U` and     *)
(* four digits, come digits and the closing quote.                         *)

CodepointSources ==
    { [prefix |-> <<"a", "=", "\"", "\\">> \o p,
       alphabet |-> {"0", "7", "8", "f", "\""}] :
      p \in { <<"u">>, <<"u", "d">>, <<"u", "D">>,
              <<"U", "0", "0", "0", "0">>, <<"U", "0", "0", "0", "1">>,
              <<"U", "0", "0", "1", "0">>, <<"U", "0", "0", "1", "1">>,
              <<"U", "F", "F", "F", "F">> } }

InitCp == \E s \in CodepointSources : StartOn(s.prefix, s.alphabet, MaxLen - 1, FALSE)

NextCp ==
    \/ parse_begin
    \/ parse_loop
    \/ parse_new_line
    \/ parse_expression
    \/ trailing_comment
    \/ skip_spaces
    \/ parse_kv_pair
    \/ parse_key
    \/ parse_key_rest
    \/ parse_chars_eq
    \/ parse_value
    \/ parse_value_return
    \/ parse_string
    \/ parse_string_second
    \/ parse_string_deliver
    \/ parse_basic_string
    \/ parse_basic_escape
    \/ parse_hex_digit
    \/ parse_codepoint

SpecCp == InitCp /\ [][NextCp]_vars

-----------------------------------------------------------------------------
(* C25 *)

\* Text s is `a="\u` and four digits or `a="\U` and eight digits, all
\* hexadecimal.
EscapeText(s) ==
    /\ Len(s) >= 5
    /\ SubSeq(s, 1, 4) = <<"a", "=", "\"", "\\">>
    /\ \/ s[5] = "u" /\ Len(s) = 9
       \/ s[5] = "U" /\ Len(s) = 13
    /\ \A i \in 6..Len(s) : s[i] \in HexDigit

RECURSIVE Hex(_)
\* The number a run of at most four hexadecimal digits denotes.
Hex(s) == IF s = <<>> THEN 0
          ELSE 16 * Hex(SubSeq(s, 1, Len(s) - 1)) + HexVal(s[Len(s)])

\* The code point of such a text as its upper and its lower 16 bits.
Upper16(s) == IF s[5] = "u" THEN 0 ELSE Hex(SubSeq(s, 6, 9))

Lower16(s) == Hex(SubSeq(s, Len(s) - 3, Len(s)))

\* The code point is one a string may hold.
ValidCodepoint(s) ==
    /\ Upper16(s) <= 16
    /\ ~(Upper16(s) = 0 /\ Lower16(s) \in 55296..57343)

\* The value of a byte as the model writes it.
ByteValue(b) == CHOOSE n \in 0..255 : Byte(n) = b

\* Decoding UTF-8: the code point that the bytes bs encode, or -1 when
\* they are not the encoding of one code point in its shortest form.
Utf8Decode(bs) ==
    LET v(i)    == ByteValue(bs[i])
        cont(i) == v(i) \in 128..191
    IN  IF Len(bs) = 1 /\ v(1) < 128 THEN v(1)
        ELSE IF Len(bs) = 2 /\ v(1) \in 194..223 /\ cont(2)
        THEN (v(1) - 192) * 64 + (v(2) - 128)
        ELSE IF Len(bs) = 3 /\ v(1) \in 224..239 /\ cont(2) /\ cont(3)
                /\ (v(1) - 224) * 4096 + (v(2) - 128) * 64 >= 2048
        THEN (v(1) - 224) * 4096 + (v(2) - 128) * 64 + (v(3) - 128)
        ELSE IF Len(bs) = 4 /\ v(1) \in 240..244 /\ cont(2) /\ cont(3) /\ cont(4)
                /\ (v(1) - 240) * 262144 + (v(2) - 128) * 4096 >= 65536
        THEN (v(1) - 240) * 262144 + (v(2) - 128) * 4096
                 + (v(3) - 128) * 64 + (v(4) - 128)
        ELSE -1

\* The number of bytes of the UTF-8 encoding of code point c.
Utf8Length(c) == IF c <= 127 THEN 1 ELSE IF c <= 2047 THEN 2
                 ELSE IF c <= 65535 THEN 3 ELSE 4

\* Where the escape of the consumed text ends, if it is complete.
EscapeEnd ==
    IF Len(consumed) >= 5 /\ consumed[5] = "u" THEN 9 ELSE 13

\* C25: once the digits of a \u or \U escape are read, a code point in
\* 0xD800..0xDFFF or above 0x10FFFF is rejected and the string is never
\* delivered; any other code point c is appended as its UTF-8 encoding,
\* 1, 2, 3 or 4 bytes that decode to c again: they are the whole string
\* when the closing quote follows the escape.  The code point read from
\* eight digits is below 2^32.
C25_CodepointsAsUtf8 ==
    /\ EscapeText(consumed) =>
           /\ Upper16(consumed) < 65536 /\ Lower16(consumed) < 65536
           /\ ~ValidCodepoint(consumed) =>
                  /\ status \in {"running", "error"}
                  /\ status = "error" =>
                         err.message \in { "Surrogate pairs are not allowed",
                                           "Codepoint must be less or equal than 0x10FFFF" }
                  /\ "string" \notin Kinds(events)
    /\ \A i \in 1..Len(events) :
           (/\ events[i].kind = "string"
            /\ EscapeText(SubSeq(consumed, 1, EscapeEnd))
            /\ consumed[EscapeEnd + 1] = "\"")
           => LET s == SubSeq(consumed, 1, EscapeEnd)
                  c == Upper16(s) * 65536 + Lower16(s)
              IN  /\ ValidCodepoint(s)
                  /\ Len(events[i].val) = Utf8Length(c)
                  /\ Utf8Decode(events[i].val) = c

\* U+07FF and U+0800, the last code point of two bytes and the first of
\* three, U+10FFFF and U+0000 were delivered.
C25_Witness ==
    /\ consumed = <<"a", "=", "\"", "\\", "u", "0", "7", "f", "f", "\"">>
    /\ Last(events) = [kind |-> "string", val |-> <<"xdf", "xbf">>, ok |-> TRUE]

C25_WitnessThree ==
    /\ consumed = <<"a", "=", "\"", "\\", "u", "0", "8", "0", "0", "\"">>
    /\ Last(events) = [kind |-> "string", val |-> <<"xe0", "xa0", "x80">>, ok |-> TRUE]

C25_WitnessFour ==
    /\ consumed = <<"a", "=", "\"", "\\", "U", "0", "0", "1", "0", "f", "f", "f", "f", "\"">>
    /\ Last(events) = [kind |-> "string", val |-> <<"xf4", "x8f", "xbf", "xbf">>, ok |-> TRUE]

\* A surrogate, a code point above 0x10FFFF and 0xFFFFFFFF were rejected.
C25_WitnessSurrogate ==
    /\ consumed = <<"a", "=", "\"", "\\", "u", "d", "8", "0", "0">>
    /\ status = "error" /\ err.message = "Surrogate pairs are not allowed"

C25_WitnessAbove ==
    /\ consumed = <<"a", "=", "\"", "\\", "U", "0", "0", "1", "1", "0", "0", "0", "0">>
    /\ status = "error" /\ err.message = "Codepoint must be less or equal than 0x10FFFF"

C25_WitnessMax ==
    /\ consumed = <<"a", "=", "\"", "\\", "U", "F", "F", "F", "F", "f", "f", "f", "f">>
    /\ status = "error" /\ err.message = "Codepoint must be less or equal than 0x10FFFF"

-----------------------------------------------------------------------------
(* One inline table as the value of a key, read up to each place where a   *)
(* key, `=`, a value, `,` or `}` is due, and then any bytes.               *)

TableSources ==
    { [prefix |-> <<"a", "=", "{">>,
       alphabet |-> {"}", " ", "\n", "#", "a", "="}],
      [prefix |-> <<"a", "=", "{", "a">>,
       alphabet |-> {"=", " ", "\n", "#", "1", "}"}],
      [prefix |-> <<"a", "=", "{", "a", "=", "1">>,
       alphabet |-> {",", "}", " ", "\n", "#", "a"}],
      [prefix |-> <<"a", "=", "{", "a", "=", "1", ",">>,
       alphabet |-> {"a", "=", "1", "}", " ", "\n"}],
      [prefix |-> <<"a", "=", "{", "a", "=", "[">>,
       alphabet |-> {"1", "]", "}", ",", "\n", "#"}] }

InitTbl == \E s \in TableSources : Start(s.prefix, s.alphabet, MaxLen - 1)

NextTbl ==
    \/ parse_begin
    \/ parse_loop
    \/ skip_spaces
    \/ parse_comment
    \/ parse_comment_body
    \/ parse_new_line
    \/ skip_spaces_and_empty_lines
    \/ skip_lines_dispatch
    \/ parse_expression
    \/ trailing_comment
    \/ parse_kv_pair
    \/ parse_chars_eq
    \/ parse_key
    \/ parse_key_rest
    \/ parse_value
    \/ parse_value_return
    \/ parse_array
    \/ parse_array_loop
    \/ parse_array_item
    \/ parse_array_separator
    \/ parse_inline_table
    \/ parse_inline_table_first
    \/ parse_inline_table_key
    \/ parse_inline_table_separator
    \/ parse_bool_or_number_or_symbol
    \/ parse_token_rest

SpecTbl == InitTbl /\ [][NextTbl]_vars

\* The bytes behind the '{' of an inline table that opens at the third
\* byte, without the last byte read.
TableBody(s) == SubSeq(s, 4, Len(s) - 1)

RECURSIVE FromLineFeed(_)
\* s from its first line feed on.
FromLineFeed(s) ==
    IF s = <<>> \/ s[1] = "\n" THEN s ELSE FromLineFeed(Tail(s))

RECURSIVE OutsideArrays(_, _)
\* The bytes of s that stand at no depth of '[' ... ']', d being the depth
\* at the first byte of s; a comment inside an array runs to its line feed.
OutsideArrays(s, d) ==
    IF s = <<>> THEN <<>>
    ELSE IF d > 0 /\ s[1] = "#" THEN OutsideArrays(FromLineFeed(s), d)
    ELSE IF s[1] = "[" THEN OutsideArrays(Tail(s), d + 1)
    ELSE IF s[1] = "]" THEN OutsideArrays(Tail(s), d - 1)
    ELSE IF d = 0 THEN <<s[1]>> \o OutsideArrays(Tail(s), d)
    ELSE OutsideArrays(Tail(s), d)

SingleLine(s) == \A i \in 1..Len(s) : s[i] \notin {"\n", "\r", "#"}

Blank(s) == \A i \in 1..Len(s) : s[i] \in {" ", "\t"}

TrailingComma(s) ==
    LET n == Len(s) - RunLenBack(s, {" ", "\t"})
    IN  n > 0 /\ s[n] = ","

C26_WitnessComment ==
    /\ consumed = <<"a", "=", "{", " ", "#">>
    /\ status = "error"
    /\ "finish_inline_table" \notin Kinds(events)

\* a={a=1, } : a trailing comma is refused.
C26_WitnessTrailingComma ==
    /\ consumed = <<"a", "=", "{", "a", "=", "1", ",", " ", "}">>
    /\ status = "error"
    /\ "finish_inline_table" \notin Kinds(events)

\* a={  } : the empty table.
C26_WitnessEmpty ==
    /\ consumed = <<"a", "=", "{", " ", " ", "}">>
    /\ Last(events) = [kind |-> "finish_inline_table", val |-> 0, ok |-> TRUE]

\* a={a=[ <LF> 1]} : a line end inside an array value is accepted.
C26_WitnessArrayValue ==
    /\ consumed = <<"a", "=", "{", "a", "=", "[", "\n", "1", "]", "}">>
    /\ Last(events).kind = "finish_inline_table"
    /\ Last(events).val = 1

-----------------------------------------------------------------------------
(* Arrays with blank lines, comments and a trailing comma.                  *)

RECURSIVE StripComments(_)
\* s without its comments: the bytes from a '#' up to the next line feed.
StripComments(s) ==
    IF s = <<>> THEN <<>>
    ELSE IF s[1] = "#" THEN StripComments(FromLineFeed(s))
    ELSE <<s[1]>> \o StripComments(Tail(s))

RECURSIVE Comments(_)
\* The number of comments of s.
Comments(s) ==
    IF s = <<>> THEN 0
    ELSE IF s[1] = "#" THEN 1 + Comments(FromLineFeed(s))
    ELSE Comments(Tail(s))

RECURSIVE Significant(_)
\* s without blanks and line terminators.
Significant(s) ==
    IF s = <<>> THEN <<>>
    ELSE IF s[1] \in {" ", "\t", "\r", "\n"} THEN Significant(Tail(s))
    ELSE <<s[1]>> \o Significant(Tail(s))

\* The number of elements written in the body of an array: the commas
\* outside inner brackets, and one more unless the body is empty or ends
\* with a comma.
Elements(body) ==
    LET t   == Significant(StripComments(body))
        top == OutsideArrays(t, 0)
    IN  Cardinality({i \in 1..Len(top) : top[i] = ","})
          + (IF t = <<>> \/ Last(t) = "," THEN 0 ELSE 1)

\* The document is a=[ ... and the array that opens at the third byte
\* has just been closed; no string or inline table is in it.
OuterArrayClosed(evs, s) ==
    /\ Len(s) >= 4
    /\ SubSeq(s, 1, 3) = <<"a", "=", "[">>
    /\ \A i \in 1..Len(s) : s[i] \notin {"\"", "{"}
    /\ Depth(evs, Len(evs)) = 0

C27_WitnessBeforeComma ==
    /\ consumed = <<"a", "=", "[", "1", "\n", ",", "1", "]">>
    /\ Last(events).kind = "finish_array"
    /\ Last(events).val = 2

\* a=[1# LF ] : a comment between the last element and the bracket.
C27_WitnessBeforeBracket ==
    /\ consumed = <<"a", "=", "[", "1", "#", "\n", "]">>
    /\ "comment" \in Kinds(events)
    /\ Last(events).kind = "finish_array"
    /\ Last(events).val = 1

\* a=[1,# LF ] : a comment behind a trailing comma.
C27_WitnessTrailingComma ==
    /\ consumed = <<"a", "=", "[", "1", ",", "#", "\n", "]">>
    /\ "comment" \in Kinds(events)
    /\ Last(events).kind = "finish_array"
    /\ Last(events).val = 1

-----------------------------------------------------------------------------
(* Arrays of arrays, of strings and of inline tables: an array read up to *)
(* its second element, and then any bytes.                                 *)

NestedSources ==
    { [prefix |-> <<"a", "=", "[", "[", "1", "]", ",", "[">>,
       alphabet |-> {"1", "a", "\"", "]", ","}],
      [prefix |-> <<"a", "=", "[", "\"", "a", "\"", ",">>,
       alphabet |-> {"'", "\"", "a", "1", "]"}],
      [prefix |-> <<"a", "=", "[", "{", "}", ",">>,
       alphabet |-> {"{", "}", "a", "=", "1", "]"}],
      [prefix |-> <<"a", "=", "[", "1", ",">>,
       alphabet |-> {"1", "a", "[", "]", "'", "{"}],
      [prefix |-> <<"a", "=", "[", "[", "1", ",", "2", "]", ",",
                    "[", "\"", "a", "\"", ",", "\"", "b", "\"", ",",
                    "\"", "c", "\"">>,
       alphabet |-> {"]", ",", "1", "\""}] }

InitNested ==
    \E s \in NestedSources : StartOn(s.prefix, s.alphabet, MaxLen, FALSE)

NextNested ==
    \/ parse_begin
    \/ parse_loop
    \/ skip_spaces
    \/ parse_new_line
    \/ skip_spaces_and_empty_lines
    \/ skip_lines_dispatch
    \/ parse_expression
    \/ trailing_comment
    \/ parse_kv_pair
    \/ parse_chars_eq
    \/ parse_key
    \/ parse_key_rest
    \/ parse_value
    \/ parse_value_return
    \/ parse_array
    \/ parse_array_loop
    \/ parse_array_item
    \/ parse_array_separator
    \/ parse_inline_table
    \/ parse_inline_table_first
    \/ parse_inline_table_key
    \/ parse_inline_table_separator
    \/ parse_string
    \/ parse_string_second
    \/ parse_string_third
    \/ parse_string_deliver
    \/ parse_basic_string
    \/ parse_multiline_string
    \/ parse_multiline_body
    \/ parse_multiline_quote
    \/ parse_multiline_quote2
    \/ parse_literal_string
    \/ parse_literal_second
    \/ parse_literal_third
    \/ parse_literal_open
    \/ parse_literal_multiline
    \/ parse_literal_quote
    \/ parse_literal_quote2
    \/ parse_literal_body
    \/ parse_bool_or_number_or_symbol
    \/ parse_token_rest

SpecNested == InitNested /\ [][NextNested]_vars

\* C28: the type check behind an element of an array fails exactly when
\* the events delivered for the elements that stand directly in that array
\* have different tags: an element that is an array has the tag of an
\* array whatever was delivered inside it, basic and literal strings have
\* one tag, and inline tables have one tag.
C28_HomogeneityOneLevelDeep ==
    [][ At("array_item")
        => ( (status' = "error" /\ err'.message = Inhomogeneous)
             <=> Last(Observed.st).mixed ) ]_vars

\* a=[[1,2],["a","b","c"]] : arrays of integers and of strings in one array.
C28_Witness ==
    /\ consumed = <<"a", "=", "[", "[", "1", ",", "2", "]", ",",
                    "[", "\"", "a", "\"", ",", "\"", "b", "\"", ",",
                    "\"", "c", "\"", "]", "]">>
    /\ Last(events) = [kind |-> "finish_array", val |-> 2, ok |-> TRUE]
    /\ {"integer", "string"} \subseteq Kinds(events)

\* a=["a",'a'] : a basic and a literal string in one array.
C28_WitnessStrings ==
    /\ consumed = <<"a", "=", "[", "\"", "a", "\"", ",", "'", "a", "'", "]">>
    /\ Last(events) = [kind |-> "finish_array", val |-> 2, ok |-> TRUE]

\* a=[{},{a=1}] : two inline tables of different keys in one array.
C28_WitnessTables ==
    /\ consumed = <<"a", "=", "[", "{", "}", ",", "{", "a", "=", "1", "}", "]">>
    /\ Last(events) = [kind |-> "finish_array", val |-> 2, ok |-> TRUE]

\* a=[[1],[1,"a" : the inner array is refused on its own.
C28_WitnessInner ==
    /\ consumed = <<"a", "=", "[", "[", "1", "]", ",", "[", "1", ",",
                    "\"", "a", "\"">>
    /\ status = "error"
    /\ err.message = Inhomogeneous
    /\ err.offset = 10

\* a=[1,[] : an integer and an array in one array.
C28_WitnessOuter ==
    /\ consumed = <<"a", "=", "[", "1", ",", "[", "]">>
    /\ status = "error"
    /\ err.message = Inhomogeneous
    /\ err.offset = 5

-----------------------------------------------------------------------------
(* The key of a pair and the failures behind it.                           *)

IsSuffix(a, b) == Len(a) <= Len(b) /\ SubSeq(b, Len(b) - Len(a) + 1, Len(b)) = a

\* Errors raised between the elements of a line, an array or a table,
\* or for a key or a header.
StructuralErrors ==
    {"Expected new-line", "Expected a non-empty key",
     "Expected one of the following symbols: '.'",
     "Expected one of the following symbols: ']'",
     Inhomogeneous,
     "Expected ',' or ']' after an array element",
     "Expected ',' or '}' after an inline table element"}

\* The call failed, and not with one of the errors above.
FailedAtValue ==
    /\ status \in {"error", "foreign_exception"}
    /\ err.kind = "parser_error_t" => err.message \notin StructuralErrors

\* The call failed while a key or a table header was being read.
FailedInKey ==
    \E i \in 1..Len(stack) :
        stack[i].pc \in {"key", "key_rest", "quoted_key", "table_header_key"}

\* The call failed with a key delivered, and not in a key or header, not
\* behind a complete value and not for the type of an array element.
FailedBehindKey ==
    /\ status \in {"error", "foreign_exception"}
    /\ "key" \in Kinds(events)
    /\ ~FailedInKey
    /\ err.kind = "parser_error_t"
          => err.message \notin {"Expected new-line", Inhomogeneous}

\* The innermost container open in the delivered events is an array.
InArray == Observed.st # <<>> /\ Last(Observed.st).kind = "array"

\* C29: whenever the call fails behind a delivered key with the '=' or the
\* value not yet complete, that key event is the last event delivered.
C29_KeyLastOnFailure ==
    FailedBehindKey => Last(events).kind = "key"

\* C29, amended: a key event is delivered with nothing read behind the
\* key; and when the call then fails for a missing '=', for the end of
\* the input or for a malformed scalar that is the value of the pair, the
\* key event is the last event delivered.
C29_KeyBeforeEqualsAndValue ==
    [][ /\ DeliversKind("key")
           => /\ consumed' = consumed
              /\ processed' = processed
              /\ Last(consumed) # "\""
                    => /\ IsSuffix(Last(events').val, consumed)
                       /\ ~is_key_character(peek)
        /\ (FailedAtValue' /\ ~FailedInKey' /\ ~InArray')
           => Last(events').kind = "key" ]_vars

\* a 1 : the '=' is missing.
C29_Witness ==
    /\ consumed = <<"a", " ", "1">>
    /\ status = "error"
    /\ err.message = "Expected one of the following symbols: '='"
    /\ Last(events) = [kind |-> "key", val |-> <<"a">>, ok |-> TRUE]

\* a="a and a line feed: the value is a string that is not closed.
C29_WitnessMalformed ==
    /\ consumed = <<"a", "=", "\"", "a", "\n">>
    /\ status = "error"
    /\ err.message = "Control characters must be escaped"
    /\ Last(events) = [kind |-> "key", val |-> <<"a">>, ok |-> TRUE]

\* a={a= and the end of the input, inside an inline table.
C29_WitnessTable ==
    /\ consumed = <<"a", "=", "{", "a", "=">>
    /\ eof
    /\ status = "error"
    /\ Len(events) = 4
    /\ Last(events) = [kind |-> "key", val |-> <<"a">>, ok |-> TRUE]

\* a=[1 1 : the value is a malformed array, and the key is not the last
\* event.
C29_WitnessArray ==
    /\ consumed = <<"a", "=", "[", "1", " ", "1">>
    /\ status = "error"
    /\ Last(events).kind = "integer"

-----------------------------------------------------------------------------
(* Termination.  parse() is one sequential call: as long as it has not     *)
(* returned or thrown, it takes its next step.                             *)

\* Where the call stands: every step of the parser changes its frames, the
\* offset or the status.
position == <<stack, processed, status>>

SpecFair == Init /\ [][Next]_vars /\ WF_position(Next)

\* C30: on every input the call ends, returning or failing, and the offset
\* of the consumed bytes never decreases on the way.
C30_Terminates ==
    /\ [][processed' >= processed]_vars
    /\ <>(status # "running")

\* a=[# LF 1] : the call has returned after the loops of the comment, of
\* the blank lines and of the array have run to the end of the input.
C30_Witness ==
    /\ status = "done"
    /\ eof
    /\ processed >= MaxLen
    /\ {"comment", "finish_array", "finish_document"} \subseteq Kinds(events)

====
